---------------------------- MODULE Spec2Model ----------------------------
(***************************************************************************)
(* Model of the seanime provider plugins: the DarkMahou torrent provider   *)
(* (src/src/darkmahou/darkmahou-provider.ts), the MangaLivre manga         *)
(* provider and the Q1N streaming provider (src/src/darkmahou-provider.ts).*)
(* Strings are sequences of one-character strings; regular expressions are *)
(* translated into matchers over these sequences.                          *)
(***************************************************************************)
EXTENDS Integers, Sequences, FiniteSets, TLC

(***************************************************************************)
(* Characters and strings                                                  *)
(***************************************************************************)
Digits == {"0", "1", "2", "3", "4", "5", "6", "7", "8", "9"}

LowerLetters ==
    {"a", "b", "c", "d", "e", "f", "g", "h", "i", "j", "k", "l", "m",
     "n", "o", "p", "q", "r", "s", "t", "u", "v", "w", "x", "y", "z"}

UpperLetters ==
    {"A", "B", "C", "D", "E", "F", "G", "H", "I", "J", "K", "L", "M",
     "N", "O", "P", "Q", "R", "S", "T", "U", "V", "W", "X", "Y", "Z"}

\* \w of a JavaScript regular expression without the u flag
WordChars == Digits \cup LowerLetters \cup UpperLetters \cup {"_"}

\* \s
SpaceChars == {" "}

LowerOf ==
    [c \in UpperLetters |->
        CASE c = "A" -> "a" [] c = "B" -> "b" [] c = "C" -> "c" [] c = "D" -> "d"
          [] c = "E" -> "e" [] c = "F" -> "f" [] c = "G" -> "g" [] c = "H" -> "h"
          [] c = "I" -> "i" [] c = "J" -> "j" [] c = "K" -> "k" [] c = "L" -> "l"
          [] c = "M" -> "m" [] c = "N" -> "n" [] c = "O" -> "o" [] c = "P" -> "p"
          [] c = "Q" -> "q" [] c = "R" -> "r" [] c = "S" -> "s" [] c = "T" -> "t"
          [] c = "U" -> "u" [] c = "V" -> "v" [] c = "W" -> "w" [] c = "X" -> "x"
          [] c = "Y" -> "y" [] c = "Z" -> "z"]

LowerChar(c) == IF c \in UpperLetters THEN LowerOf[c] ELSE c

\* String.prototype.toLowerCase
toLowerCase(s) == [i \in 1..Len(s) |-> LowerChar(s[i])]

DigitVal ==
    [c \in Digits |->
        CASE c = "0" -> 0 [] c = "1" -> 1 [] c = "2" -> 2 [] c = "3" -> 3
          [] c = "4" -> 4 [] c = "5" -> 5 [] c = "6" -> 6 [] c = "7" -> 7
          [] c = "8" -> 8 [] c = "9" -> 9]

RECURSIVE parseInt(_)
\* parseInt of a non-empty string of decimal digits.  The code compares the
\* number with limits of at most 9999 only, so a number of more than nine
\* digits is kept at its first nine digits, which is above every limit.
parseInt(s) ==
    IF s = <<>> THEN 0
    ELSE LET front == parseInt(SubSeq(s, 1, Len(s) - 1))
         IN  IF front >= 100000000 THEN front
             ELSE 10 * front + DigitVal[s[Len(s)]]

RECURSIVE Flatten(_)
\* concatenation of a sequence of strings
Flatten(ss) == IF ss = <<>> THEN <<>> ELSE Head(ss) \o Flatten(Tail(ss))

Min(S) == CHOOSE x \in S : \A y \in S : x <= y

\* the value JavaScript calls null, kept apart from every number
Null == -2

\* String.prototype.includes
includes(s, sub) ==
    \E i \in 1..(Len(s) - Len(sub) + 1) : SubSeq(s, i, i + Len(sub) - 1) = sub

\* String.prototype.startsWith
startsWith(s, pre) == Len(s) >= Len(pre) /\ SubSeq(s, 1, Len(pre)) = pre

(***************************************************************************)
(* Regular-expression building blocks                                      *)
(***************************************************************************)
IsWordAt(s, i) == i \in 1..Len(s) /\ s[i] \in WordChars

\* \b between s[i-1] and s[i]
Boundary(s, i) == IsWordAt(s, i - 1) # IsWordAt(s, i)

RECURSIVE DigitRun(_, _)
\* number of consecutive digits of s from position i
DigitRun(s, i) ==
    IF i \in 1..Len(s) /\ s[i] \in Digits THEN 1 + DigitRun(s, i + 1) ELSE 0

RECURSIVE SpaceRun(_, _)
\* number of consecutive white-space characters of s from position i
SpaceRun(s, i) ==
    IF i \in 1..Len(s) /\ s[i] \in SpaceChars THEN 1 + SpaceRun(s, i + 1) ELSE 0

\* the literal lit (lower case) matches s at i under the i flag
LitAtCI(s, i, lit) ==
    /\ i >= 1
    /\ i + Len(lit) - 1 <= Len(s)
    /\ \A k \in 1..Len(lit) : LowerChar(s[i + k - 1]) = lit[k]

IsSpaceAt(s, i) == i \in 1..Len(s) /\ s[i] \in SpaceChars


\* characters outside ASCII, written as two-character symbols: o-acute, the
\* feminine ordinal indicator.  Neither is a \w character.
OAcute == "o'"
OrdA == "a'"

(***************************************************************************)
(* DarkMahou: PROVIDER_CONFIG and REGEX_PATTERNS                           *)
(***************************************************************************)
MAX_EPISODE_NUMBER == 9999
MIN_EPISODE_NUMBER == 1
MAX_YEAR == 2000
COMMON_RESOLUTIONS == {480, 720, 1080}
MAX_BATCH_EPISODES == 999

\* A match is the sequence of its capture groups; <<>> is "no match".
NoMatch == <<>>

\* Op applied to the value of v, which is computed once
Bind(v, Op(_)) == CHOOSE r \in { Op(x) : x \in {v} } : TRUE

\* /\b(\d{2,3})\s*[-~]\s*(\d{2,3})\b/ anchored at i.  The first group is
\* followed by a non-digit and the second by \b, so each group is a whole
\* run of two or three digits.
EpisodeRangeAt(s, i) ==
    /\ Boundary(s, i)
    /\ DigitRun(s, i) \in {2, 3}
    /\ LET j == i + DigitRun(s, i) + SpaceRun(s, i + DigitRun(s, i))
       IN  /\ j <= Len(s)
           /\ s[j] \in {"-", "~"}
           /\ LET k == j + 1 + SpaceRun(s, j + 1)
              IN  /\ DigitRun(s, k) \in {2, 3}
                  /\ Boundary(s, k + DigitRun(s, k))

\* String.prototype.match with REGEX_PATTERNS.EPISODE_RANGE: leftmost match
EPISODE_RANGE(s) ==
    LET at == {i \in 1..Len(s) : EpisodeRangeAt(s, i)}
    IN  IF at = {} THEN NoMatch
        ELSE LET i == Min(at)
                 n1 == DigitRun(s, i)
                 j == i + n1 + SpaceRun(s, i + n1)
                 k == j + 1 + SpaceRun(s, j + 1)
             IN  << SubSeq(s, i, i + n1 - 1), SubSeq(s, k, k + DigitRun(s, k) - 1) >>

\* /S(\d+)E(\d+)/i anchored at i
SeasonEpisodeAt(s, i) ==
    /\ LitAtCI(s, i, <<"s">>)
    /\ DigitRun(s, i + 1) >= 1
    /\ LitAtCI(s, i + 1 + DigitRun(s, i + 1), <<"e">>)
    /\ DigitRun(s, i + 2 + DigitRun(s, i + 1)) >= 1

SEASON_EPISODE(s) ==
    LET at == {i \in 1..Len(s) : SeasonEpisodeAt(s, i)}
    IN  IF at = {} THEN NoMatch
        ELSE LET i == Min(at)
                 n1 == DigitRun(s, i + 1)
                 k == i + 2 + n1
             IN  << SubSeq(s, i + 1, i + n1), SubSeq(s, k, k + DigitRun(s, k) - 1) >>

\* /\s-\s(\d{1,4})\s/ anchored at i: the group is followed by \s, so it is
\* a whole run of one to four digits
EpisodeDashAt(s, i) ==
    /\ IsSpaceAt(s, i)
    /\ i + 1 <= Len(s) /\ s[i + 1] = "-"
    /\ IsSpaceAt(s, i + 2)
    /\ DigitRun(s, i + 3) \in 1..4
    /\ IsSpaceAt(s, i + 3 + DigitRun(s, i + 3))

EPISODE_DASH(s) ==
    LET at == {i \in 1..Len(s) : EpisodeDashAt(s, i)}
    IN  IF at = {} THEN NoMatch
        ELSE LET i == Min(at)
             IN  << SubSeq(s, i + 3, i + 2 + DigitRun(s, i + 3)) >>

Str_episodio == <<"e", "p", "i", "s", OAcute, "d", "i", "o">>
Str_ep == <<"e", "p">>
Str_episode == <<"e", "p", "i", "s", "o", "d", "e">>

\* EPISODE_PATTERNS.PORTUGUESE: /episódio\s+(\d+)/i anchored at i
PortugueseAt(s, i) ==
    /\ LitAtCI(s, i, Str_episodio)
    /\ SpaceRun(s, i + 8) >= 1
    /\ DigitRun(s, i + 8 + SpaceRun(s, i + 8)) >= 1

PORTUGUESE(s) ==
    LET at == {i \in 1..Len(s) : PortugueseAt(s, i)}
    IN  IF at = {} THEN NoMatch
        ELSE LET k == Min(at) + 8 + SpaceRun(s, Min(at) + 8)
             IN  << SubSeq(s, k, k + DigitRun(s, k) - 1) >>

\* (?:ep|episode)\s*(\d+) with the alternative lit, anchored at i
EnglishAltAt(s, i, lit) ==
    /\ LitAtCI(s, i, lit)
    /\ DigitRun(s, i + Len(lit) + SpaceRun(s, i + Len(lit))) >= 1

EnglishGroup(s, i, lit) ==
    LET k == i + Len(lit) + SpaceRun(s, i + Len(lit))
    IN  SubSeq(s, k, k + DigitRun(s, k) - 1)

\* EPISODE_PATTERNS.ENGLISH: /(?:ep|episode)\s*(\d+)/i, leftmost match, the
\* alternative "ep" tried before "episode" at each position
ENGLISH(s) ==
    LET at == {i \in 1..Len(s) :
                  EnglishAltAt(s, i, Str_ep) \/ EnglishAltAt(s, i, Str_episode)}
    IN  IF at = {} THEN NoMatch
        ELSE LET i == Min(at)
             IN  IF EnglishAltAt(s, i, Str_ep)
                 THEN << EnglishGroup(s, i, Str_ep) >>
                 ELSE << EnglishGroup(s, i, Str_episode) >>

\* /\b(\d{1,4})\b/ anchored at i: a whole word of one to four digits
EpisodeNumberAt(s, i) ==
    /\ Boundary(s, i)
    /\ DigitRun(s, i) \in 1..4
    /\ Boundary(s, i + DigitRun(s, i))

RECURSIVE EpisodeNumberFrom(_, _)
EpisodeNumberFrom(s, i) ==
    IF i > Len(s) THEN <<>>
    ELSE IF EpisodeNumberAt(s, i)
         THEN << SubSeq(s, i, i + DigitRun(s, i) - 1) >>
                 \o EpisodeNumberFrom(s, i + DigitRun(s, i))
         ELSE EpisodeNumberFrom(s, i + 1)

\* String.prototype.match with the global REGEX_PATTERNS.EPISODE_NUMBER: all
\* matches, left to right (the empty list stands for null)
EPISODE_NUMBER(s) == EpisodeNumberFrom(s, 1)

\* /\b(\d{3,4}p)\b/i anchored at i
ResolutionAt(s, i) ==
    /\ Boundary(s, i)
    /\ DigitRun(s, i) \in {3, 4}
    /\ LitAtCI(s, i + DigitRun(s, i), <<"p">>)
    /\ Boundary(s, i + DigitRun(s, i) + 1)

RESOLUTION(s) ==
    LET at == {i \in 1..Len(s) : ResolutionAt(s, i)}
    IN  IF at = {} THEN NoMatch
        ELSE << SubSeq(s, Min(at), Min(at) + DigitRun(s, Min(at))) >>

RECURSIVE UntilBracket(_, _)
\* length of the run of characters other than "]" from position i
UntilBracket(s, i) ==
    IF i \in 1..Len(s) /\ s[i] # "]" THEN 1 + UntilBracket(s, i + 1) ELSE 0

\* /^\[([^\]]+)\]/
RELEASE_GROUP(s) ==
    IF /\ Len(s) >= 3
       /\ s[1] = "["
       /\ UntilBracket(s, 2) >= 1
       /\ 2 + UntilBracket(s, 2) <= Len(s)
    THEN << SubSeq(s, 2, 1 + UntilBracket(s, 2)) >>
    ELSE NoMatch

(***************************************************************************)
(* DarkMahou: type guards and TorrentParser                                *)
(***************************************************************************)
isValidEpisodeNumber(num) ==
    num >= MIN_EPISODE_NUMBER /\ num <= MAX_EPISODE_NUMBER

Str_batch == <<"b", "a", "t", "c", "h">>
Str_complete == <<"c", "o", "m", "p", "l", "e", "t", "e">>
Str_tilde == <<"~">>

\* lowerName.match(/\bs\d+\b/)
SeasonMarker(lowerName) ==
    \E i \in 1..Len(lowerName) :
        /\ Boundary(lowerName, i)
        /\ lowerName[i] = "s"
        /\ DigitRun(lowerName, i + 1) >= 1
        /\ Boundary(lowerName, i + 1 + DigitRun(lowerName, i + 1))

\* lowerName.match(/\bs\d+e\d+\b/)
SeasonEpisodeWord(lowerName) ==
    \E i \in 1..Len(lowerName) :
        /\ Boundary(lowerName, i)
        /\ lowerName[i] = "s"
        /\ DigitRun(lowerName, i + 1) >= 1
        /\ LET j == i + 1 + DigitRun(lowerName, i + 1)
           IN  /\ j <= Len(lowerName)
               /\ lowerName[j] = "e"
               /\ DigitRun(lowerName, j + 1) >= 1
               /\ Boundary(lowerName, j + 1 + DigitRun(lowerName, j + 1))

\* name.match(/\s-\s\d{1,3}(\s|$)/)
SingleEpisodeDash(name) ==
    \E i \in 1..Len(name) :
        /\ IsSpaceAt(name, i)
        /\ i + 1 <= Len(name) /\ name[i + 1] = "-"
        /\ IsSpaceAt(name, i + 2)
        /\ \E n \in 1..3 :
              /\ n <= DigitRun(name, i + 3)
              /\ (IsSpaceAt(name, i + 3 + n) \/ i + 3 + n = Len(name) + 1)

\* TorrentParser.isBatchTorrent
isBatchTorrent(name, episodeTitle) ==
    LET lowerName == toLowerCase(name)
        lowerTitle == toLowerCase(episodeTitle)
        rangeMatch == EPISODE_RANGE(name)
    IN  IF \/ includes(lowerName, Str_batch)
           \/ includes(lowerName, Str_complete)
           \/ includes(lowerTitle, Str_tilde)
        THEN TRUE
        ELSE IF /\ rangeMatch # NoMatch
                /\ parseInt(rangeMatch[2]) > parseInt(rangeMatch[1])
                /\ parseInt(rangeMatch[1]) >= MIN_EPISODE_NUMBER
                /\ parseInt(rangeMatch[2]) <= MAX_BATCH_EPISODES
        THEN TRUE
        ELSE IF SeasonMarker(lowerName) /\ ~SeasonEpisodeWord(lowerName)
        THEN TRUE
        ELSE IF SingleEpisodeDash(name)
        THEN FALSE
        ELSE FALSE

\* TorrentParser.tryExtractFromPattern, applied to the result of text.match
tryExtractFromPattern(match) ==
    IF match # NoMatch
    THEN IF isValidEpisodeNumber(parseInt(match[1])) THEN parseInt(match[1]) ELSE Null
    ELSE Null

\* TorrentParser.tryExtractFromSeasonEpisode
tryExtractFromSeasonEpisode(name) ==
    LET match == SEASON_EPISODE(name)
    IN  IF match # NoMatch
        THEN IF isValidEpisodeNumber(parseInt(match[2])) THEN parseInt(match[2]) ELSE Null
        ELSE Null

\* TorrentParser.isValidEpisodeForIsolation
isValidEpisodeForIsolation(num) ==
    /\ isValidEpisodeNumber(num)
    /\ num \notin COMMON_RESOLUTIONS
    /\ num < MAX_YEAR

RECURSIVE FirstIsolated(_)
FirstIsolated(matches) ==
    IF matches = <<>> THEN Null
    ELSE IF isValidEpisodeForIsolation(parseInt(Head(matches)))
         THEN parseInt(Head(matches))
         ELSE FirstIsolated(Tail(matches))

\* TorrentParser.tryExtractFromIsolatedNumbers
tryExtractFromIsolatedNumbers(name) == FirstIsolated(EPISODE_NUMBER(name))

\* faulty variant: the ' - N ' pattern of the name is tried before the title
extractionStrategies_dashFirst(name, episodeTitle) ==
    << tryExtractFromPattern(EPISODE_DASH(name)),
       tryExtractFromPattern(PORTUGUESE(episodeTitle)),
       tryExtractFromSeasonEpisode(name),
       tryExtractFromPattern(ENGLISH(name)),
       tryExtractFromIsolatedNumbers(name) >>

\* the extractionStrategies array of extractEpisodeNumber, in its order
extractionStrategies(name, episodeTitle) ==
    << tryExtractFromPattern(PORTUGUESE(episodeTitle)),
       tryExtractFromPattern(EPISODE_DASH(name)),
       tryExtractFromSeasonEpisode(name),
       tryExtractFromPattern(ENGLISH(name)),
       tryExtractFromIsolatedNumbers(name) >>

RECURSIVE FirstStrategyResult(_)
\* the for loop over the strategies: the first result that is not null
FirstStrategyResult(results) ==
    IF results = <<>> THEN -1
    ELSE IF Head(results) # Null THEN Head(results)
         ELSE FirstStrategyResult(Tail(results))

\* faulty variant: the batch test is left out
extractEpisodeNumber_noBatchTest(name, episodeTitle) ==
    FirstStrategyResult(extractionStrategies(name, episodeTitle))

\* TorrentParser.extractEpisodeNumber
extractEpisodeNumber(name, episodeTitle) ==
    IF isBatchTorrent(name, episodeTitle)
    THEN -1
    ELSE FirstStrategyResult(extractionStrategies(name, episodeTitle))

\* TorrentParser.parseResolution
validResolutions ==
    { <<"4", "8", "0", "p">>, <<"7", "2", "0", "p">>, <<"1", "0", "8", "0", "p">>,
      <<"1", "4", "4", "0", "p">>, <<"4", "K">> }

parseResolution(name) ==
    LET match == RESOLUTION(name)
    IN  IF match # NoMatch /\ match[1] \in validResolutions THEN match[1] ELSE <<>>

\* TorrentParser.extractReleaseGroup
extractReleaseGroup(name) ==
    LET match == RELEASE_GROUP(name)
    IN  IF match # NoMatch THEN match[1] ELSE <<>>

(***************************************************************************)
(* DarkMahou: PortugueseTranslator                                         *)
(***************************************************************************)
Str_season == <<"s", "e", "a", "s", "o", "n">>
Str_temporada == <<"t", "e", "m", "p", "o", "r", "a", "d", "a">>
Str_part == <<"p", "a", "r", "t">>
Str_parte == <<"p", "a", "r", "t", "e">>

\* PORTUGUESE_TRANSLATIONS.ORDINAL_NUMBERS, in the order of its entries
ORDINAL_NUMBERS ==
    << << <<"f", "i", "r", "s", "t">>, <<"1", OrdA>> >>,
       << <<"s", "e", "c", "o", "n", "d">>, <<"2", OrdA>> >>,
       << <<"t", "h", "i", "r", "d">>, <<"3", OrdA>> >>,
       << <<"f", "o", "u", "r", "t", "h">>, <<"4", OrdA>> >>,
       << <<"f", "i", "f", "t", "h">>, <<"5", OrdA>> >> >>

\* PORTUGUESE_TRANSLATIONS.TERMS, in the order of its entries
TERMS ==
    << << <<"m", "o", "v", "i", "e">>, <<"f", "i", "l", "m", "e">> >>,
       << <<"o", "v", "a">>, <<"o", "v", "a">> >>,
       << <<"s", "p", "e", "c", "i", "a", "l">>, <<"e", "s", "p", "e", "c", "i", "a", "l">> >> >>

RECURSIVE ReplaceAll(_, _, _, _)
\* String.prototype.replace with a global regular expression: mlen[i] is the
\* length of the match anchored at i (0 when there is none), repl[i] its
\* replacement; matches are taken left to right and do not overlap
ReplaceAll(s, i, mlen, repl) ==
    IF i > Len(s) THEN <<>>
    ELSE IF mlen[i] > 0
         THEN repl[i] \o ReplaceAll(s, i + mlen[i], mlen, repl)
         ELSE << s[i] >> \o ReplaceAll(s, i + 1, mlen, repl)

OrdinalSuffixAt(s, i) ==
    \/ LitAtCI(s, i, <<"s", "t">>)
    \/ LitAtCI(s, i, <<"n", "d">>)
    \/ LitAtCI(s, i, <<"r", "d">>)
    \/ LitAtCI(s, i, <<"t", "h">>)

\* REGEX_PATTERNS.SEASON_ORDINAL: /\b(\d+)(?:st|nd|rd|th)\s+season\b/gi
SeasonOrdinalLen(s, i) ==
    LET n == DigitRun(s, i)
        w == SpaceRun(s, i + n + 2)
    IN  IF /\ Boundary(s, i)
           /\ n >= 1
           /\ OrdinalSuffixAt(s, i + n)
           /\ w >= 1
           /\ LitAtCI(s, i + n + 2 + w, Str_season)
           /\ Boundary(s, i + n + 2 + w + 6)
        THEN n + 2 + w + 6
        ELSE 0

\* TRANSLATION_RULES.seasonOrdinal
seasonOrdinal(query) ==
    ReplaceAll(query, 1,
        [i \in 1..Len(query) |-> SeasonOrdinalLen(query, i)],
        [i \in 1..Len(query) |->
            SubSeq(query, i, i + DigitRun(query, i) - 1) \o <<OrdA, " ">> \o Str_temporada])

\* a keyword, white space and a number that ends at a word boundary:
\* /\b<word>\s+(\d+)\b/gi
WordNumberLen(s, i, word) ==
    LET w == SpaceRun(s, i + Len(word))
        n == DigitRun(s, i + Len(word) + w)
    IN  IF /\ Boundary(s, i)
           /\ LitAtCI(s, i, word)
           /\ w >= 1
           /\ n >= 1
           /\ Boundary(s, i + Len(word) + w + n)
        THEN Len(word) + w + n
        ELSE 0

WordNumberGroup(s, i, word) ==
    LET k == i + Len(word) + SpaceRun(s, i + Len(word))
    IN  SubSeq(s, k, k + DigitRun(s, k) - 1)

\* faulty variant: the ordinal sign is left out
seasonNumber_plain(query) ==
    ReplaceAll(query, 1,
        [i \in 1..Len(query) |-> WordNumberLen(query, i, Str_season)],
        [i \in 1..Len(query) |->
            WordNumberGroup(query, i, Str_season) \o <<" ">> \o Str_temporada])

\* TRANSLATION_RULES.seasonNumber, with REGEX_PATTERNS.SEASON_NUMBER
seasonNumber(query) ==
    ReplaceAll(query, 1,
        [i \in 1..Len(query) |-> WordNumberLen(query, i, Str_season)],
        [i \in 1..Len(query) |->
            WordNumberGroup(query, i, Str_season) \o <<OrdA, " ">> \o Str_temporada])

\* /\b<english>\s+season\b/gi
OrdinalWordLen(s, i, english) ==
    LET w == SpaceRun(s, i + Len(english))
    IN  IF /\ Boundary(s, i)
           /\ LitAtCI(s, i, english)
           /\ w >= 1
           /\ LitAtCI(s, i + Len(english) + w, Str_season)
           /\ Boundary(s, i + Len(english) + w + 6)
        THEN Len(english) + w + 6
        ELSE 0

RECURSIVE ordinalNumbersFrom(_, _)
ordinalNumbersFrom(result, k) ==
    IF k > Len(ORDINAL_NUMBERS) THEN result
    ELSE ordinalNumbersFrom(
            ReplaceAll(result, 1,
                [i \in 1..Len(result) |-> OrdinalWordLen(result, i, ORDINAL_NUMBERS[k][1])],
                [i \in 1..Len(result) |-> ORDINAL_NUMBERS[k][2] \o <<" ">> \o Str_temporada]),
            k + 1)

\* TRANSLATION_RULES.ordinalNumbers
ordinalNumbers(query) == ordinalNumbersFrom(query, 1)

\* /\b<english>\b/gi
TermLen(s, i, english) ==
    IF /\ Boundary(s, i)
       /\ LitAtCI(s, i, english)
       /\ Boundary(s, i + Len(english))
    THEN Len(english)
    ELSE 0

RECURSIVE commonTermsFrom(_, _)
commonTermsFrom(result, k) ==
    IF k > Len(TERMS) THEN result
    ELSE commonTermsFrom(
            ReplaceAll(result, 1,
                [i \in 1..Len(result) |-> TermLen(result, i, TERMS[k][1])],
                [i \in 1..Len(result) |-> TERMS[k][2]]),
            k + 1)

\* TRANSLATION_RULES.commonTerms
commonTerms(query) == commonTermsFrom(query, 1)

\* TRANSLATION_RULES.partNumbers: /\bpart\s+(\d+)\b/gi
partNumbers(query) ==
    ReplaceAll(query, 1,
        [i \in 1..Len(query) |-> WordNumberLen(query, i, Str_part)],
        [i \in 1..Len(query) |-> Str_parte \o <<" ">> \o WordNumberGroup(query, i, Str_part)])

RECURSIVE TrailingSpaces(_)
TrailingSpaces(s) ==
    IF s # <<>> /\ s[Len(s)] \in SpaceChars
    THEN 1 + TrailingSpaces(SubSeq(s, 1, Len(s) - 1))
    ELSE 0

\* String.prototype.trim
trim(s) == SubSeq(s, 1 + SpaceRun(s, 1), Len(s) - TrailingSpaces(s))

\* TRANSLATION_RULES.normalize: query.replace(/\s+/g, " ").trim()
normalize(query) ==
    trim(ReplaceAll(query, 1,
            [i \in 1..Len(query) |-> SpaceRun(query, i)],
            [i \in 1..Len(query) |-> <<" ">>]))

\* PortugueseTranslator.convertQuery: the rules reduced over the query in
\* the order of the TRANSLATION_RULES object
convertQuery(query) ==
    normalize(partNumbers(commonTerms(ordinalNumbers(seasonNumber(seasonOrdinal(query))))))

(***************************************************************************)
(* DarkMahou: magnet links, pages and the torrents made from them          *)
(***************************************************************************)
\* A magnet link is kept as its parts: the scheme it starts with, the
\* 40-digit btih hash it carries ("" when it carries none) and the value of
\* its &dn= parameter (<<>> when it has none).  A link that carries a hash is
\* longer than 20 characters.

Str_magnet == "magnet:?"

\* isValidMagnetLink
isValidMagnetLink(link) == link.scheme = Str_magnet /\ link.hash # ""

\* TorrentParser.extractInfoHash
extractInfoHash(magnetLink) ==
    IF ~isValidMagnetLink(magnetLink) THEN "" ELSE magnetLink.hash

\* REGEX_PATTERNS.MAGNET_LINK, /magnet:\?[^"'\s<>]+/gi, matches the text of a
\* link whatever the letter case of its scheme
MatchesMagnetLink(link) == link.scheme \in {"magnet:?", "MAGNET:?"}

HexVal(c) ==
    IF c \in Digits THEN DigitVal[c]
    ELSE CASE LowerChar(c) = "a" -> 10 [] LowerChar(c) = "b" -> 11
           [] LowerChar(c) = "c" -> 12 [] LowerChar(c) = "d" -> 13
           [] LowerChar(c) = "e" -> 14 [] LowerChar(c) = "f" -> 15
           [] OTHER -> -1

\* the ASCII characters the model writes as escapes
CharOfCode(n) ==
    CASE n = 32 -> " " [] n = 45 -> "-" [] n = 47 -> "/" [] n = 58 -> ":"
      [] n = 91 -> "[" [] n = 93 -> "]" [] OTHER -> "?"

RECURSIVE decodeFrom(_, _)
\* the text decoded from position i on; ok is FALSE for a URIError (an escape
\* that is cut short, not hexadecimal, or a lone non-ASCII byte)
decodeFrom(s, i) ==
    IF i > Len(s) THEN [ok |-> TRUE, value |-> <<>>]
    ELSE IF s[i] # "%"
    THEN LET rest == decodeFrom(s, i + 1)
         IN  [ok |-> rest.ok, value |-> << s[i] >> \o rest.value]
    ELSE IF i + 2 > Len(s)
    THEN [ok |-> FALSE, value |-> <<>>]
    ELSE IF HexVal(s[i + 1]) < 0 \/ HexVal(s[i + 2]) < 0 \/ HexVal(s[i + 1]) >= 8
    THEN [ok |-> FALSE, value |-> <<>>]
    ELSE LET rest == decodeFrom(s, i + 3)
         IN  [ok |-> rest.ok,
              value |-> << CharOfCode(16 * HexVal(s[i + 1]) + HexVal(s[i + 2])) >>
                            \o rest.value]

\* decodeURIComponent: ok is FALSE when it throws
decodeURIComponent(s) ==
    LET r == decodeFrom(s, 1)
    IN  IF r.ok THEN r ELSE [ok |-> FALSE, value |-> <<>>]

DigitChar ==
    [n \in 0..9 |->
        CASE n = 0 -> "0" [] n = 1 -> "1" [] n = 2 -> "2" [] n = 3 -> "3"
          [] n = 4 -> "4" [] n = 5 -> "5" [] n = 6 -> "6" [] n = 7 -> "7"
          [] n = 8 -> "8" [] n = 9 -> "9"]

RECURSIVE numberToString(_)
\* a non-negative number in decimal
numberToString(n) ==
    IF n < 10 THEN << DigitChar[n] >>
    ELSE numberToString(n \div 10) \o << DigitChar[n % 10] >>

\* String.prototype.replace with a string pattern: the first occurrence
replaceFirst(s, pat, by) ==
    LET at == {i \in 1..(Len(s) - Len(pat) + 1) : SubSeq(s, i, i + Len(pat) - 1) = pat}
    IN  IF at = {} THEN s
        ELSE SubSeq(s, 1, Min(at) - 1) \o by \o SubSeq(s, Min(at) + Len(pat), Len(s))

\* Provider.createAnimeTorrent (the constant fields and the date are left out)
createAnimeTorrent(name, magnetLink, pageURL, resolution, episodeTitle) ==
    [ name |-> name,
      link |-> pageURL,
      magnetLink |-> magnetLink,
      infoHash |-> extractInfoHash(magnetLink),
      resolution |-> IF parseResolution(name) # <<>> THEN parseResolution(name)
                     ELSE resolution,
      isBatch |-> isBatchTorrent(name, episodeTitle),
      episodeNumber |-> extractEpisodeNumber(name, episodeTitle),
      releaseGroup |-> extractReleaseGroup(name) ]

Str_Episode_ == <<"E", "p", "i", "s", "o", "d", "e", " ">>

\* Provider.extractTorrentNameFromMagnet, with /&dn=([^&]+)/
extractTorrentNameFromMagnet(magnetLink, fallbackNumber) ==
    IF magnetLink.dn # <<>>
    THEN IF decodeURIComponent(magnetLink.dn).ok
         THEN decodeURIComponent(magnetLink.dn).value
         ELSE magnetLink.dn
    ELSE Str_Episode_ \o numberToString(fallbackNumber)

\* An anime page: the rows of its div.soraddl tables in document order, each
\* with the h3 title of its block, the text of td.reso and the href of its
\* link; the magnet links that occur in the page outside such rows; and what
\* the LoadDoc helper of the host does with the page.
RECURSIVE loadDocRows(_, _, _, _)
\* the two nested each loops of parseWithLoadDoc from row i on; results are
\* the torrents pushed so far.  With loadDoc = "throwsInEach" the helper
\* throws while the last row is processed.
loadDocRows(page, pageURL, i, results) ==
    IF i > Len(page.rows) THEN [threw |-> FALSE, results |-> results]
    ELSE IF page.loadDoc = "throwsInEach" /\ i = Len(page.rows)
    THEN [threw |-> TRUE, results |-> results]
    ELSE LET row == page.rows[i]
             cleanedResolution == trim(replaceFirst(trim(row.reso), <<">", ">">>, <<>>))
         IN  IF row.href.scheme = Str_magnet
             THEN loadDocRows(page, pageURL, i + 1,
                      Append(results,
                          createAnimeTorrent(
                              trim(row.title) \o <<" ", "-", " ">> \o cleanedResolution,
                              row.href, pageURL, cleanedResolution, trim(row.title))))
             ELSE loadDocRows(page, pageURL, i + 1, results)

\* faulty variant: the torrents pushed before the exception are returned
parseWithLoadDoc_keepPartial(page, pageURL) ==
    IF page.loadDoc = "throwsAtCall" THEN <<>>
    ELSE IF page.loadDoc = "notFunction" THEN <<>>
    ELSE loadDocRows(page, pageURL, 1, <<>>).results

\* Provider.parseWithLoadDoc
parseWithLoadDoc(page, pageURL) ==
    IF page.loadDoc = "throwsAtCall" THEN <<>>
    ELSE IF page.loadDoc = "notFunction" THEN <<>>
    ELSE Bind(loadDocRows(page, pageURL, 1, <<>>),
              LAMBDA run : IF run.threw THEN <<>> ELSE run.results)

RECURSIVE seqFilter(_, _)
\* the elements of seq at which keep holds, in order (Array.prototype.filter)
seqFilter(seq, keep) ==
    IF seq = <<>> THEN <<>>
    ELSE IF keep[1]
         THEN << Head(seq) >> \o seqFilter(Tail(seq), [i \in 1..(Len(seq) - 1) |-> keep[i + 1]])
         ELSE seqFilter(Tail(seq), [i \in 1..(Len(seq) - 1) |-> keep[i + 1]])

\* html.match(REGEX_PATTERNS.MAGNET_LINK): the magnet links of the page text
\* in document order
magnetMatches(page) ==
    LET hrefs == [i \in 1..Len(page.rows) |-> page.rows[i].href]
        all == hrefs \o page.loose
    IN  seqFilter(all, [i \in 1..Len(all) |-> MatchesMagnetLink(all[i])])

\* Provider.parseWithRegexFallback
parseWithRegexFallback(page, pageURL) ==
    LET found == magnetMatches(page)
    IN  [index \in 1..Len(found) |->
            LET torrentName == extractTorrentNameFromMagnet(found[index], index)
            IN  createAnimeTorrent(torrentName, found[index], pageURL,
                                   parseResolution(torrentName), <<>>)]

\* Provider.parseTorrentsFromHTML
parseTorrentsFromHTML(page, pageURL) ==
    Bind(parseWithLoadDoc(page, pageURL),
         LAMBDA loadDocResults :
            IF Len(loadDocResults) > 0
            THEN loadDocResults
            ELSE parseWithRegexFallback(page, pageURL))

\* faulty variant: the episode filter keeps only the torrents of that episode
applySmartSearchFilters_equalOnly(results, opts) ==
    LET byEpisode ==
            IF opts.episodeNumber > 0
            THEN seqFilter(results,
                    [i \in 1..Len(results) |->
                        results[i].episodeNumber = opts.episodeNumber])
            ELSE results
        byResolution ==
            IF opts.resolution # <<>>
            THEN seqFilter(byEpisode,
                    [i \in 1..Len(byEpisode) |->
                        \/ byEpisode[i].resolution = <<>>
                        \/ includes(byEpisode[i].resolution, opts.resolution)])
            ELSE byEpisode
        byBatch ==
            IF opts.batch
            THEN seqFilter(byResolution,
                    [i \in 1..Len(byResolution) |-> byResolution[i].isBatch])
            ELSE byResolution
    IN  byBatch

\* Provider.applySmartSearchFilters
applySmartSearchFilters(results, opts) ==
    LET byEpisode ==
            IF opts.episodeNumber > 0
            THEN seqFilter(results,
                    [i \in 1..Len(results) |->
                        \/ results[i].episodeNumber = opts.episodeNumber
                        \/ results[i].isBatch
                        \/ results[i].episodeNumber = -1])
            ELSE results
        byResolution ==
            IF opts.resolution # <<>>
            THEN seqFilter(byEpisode,
                    [i \in 1..Len(byEpisode) |->
                        \/ byEpisode[i].resolution = <<>>
                        \/ includes(byEpisode[i].resolution, opts.resolution)])
            ELSE byEpisode
        byBatch ==
            IF opts.batch
            THEN seqFilter(byResolution,
                    [i \in 1..Len(byResolution) |-> byResolution[i].isBatch])
            ELSE byResolution
    IN  byBatch

(***************************************************************************)
(* DarkMahou: AnimePageExtractor                                           *)
(***************************************************************************)
\* a torrent that has no magnet link: the empty string
NoMagnet == [scheme |-> "", hash |-> "", dn |-> <<>>]

\* the hash that getTorrentInfoHash gives for a torrent without data
exampleHash == "1234567890abcdef1234567890abcdef12345678"

\* Provider.getTorrentInfoHash
getTorrentInfoHash(torrent) ==
    IF torrent.infoHash # "" THEN torrent.infoHash
    ELSE IF torrent.magnetLink # NoMagnet
            /\ extractInfoHash(torrent.magnetLink) # ""
    THEN extractInfoHash(torrent.magnetLink)
    ELSE IF torrent.magnetLink = NoMagnet /\ torrent.infoHash = ""
    THEN exampleHash
    ELSE ""

\* a lone surrogate, the code unit \uD800 without its pair
LoneSurrogate == "\\uD800"

\* encodeURIComponent throws URIError exactly on a string that holds a lone
\* surrogate
encodeURIComponentThrows(s) == \E i \in 1..Len(s) : s[i] = LoneSurrogate

Str_host ==
    <<"h", "t", "t", "p", "s", ":", "/", "/", "d", "a", "r", "k", "m", "a", "h", "o", "u",
      ".", "o", "r", "g">>

EXCLUDED_URL_PATTERNS ==
    { <<"/", "?", "s", "=">>,
      <<"/", "t", "a", "g", "/">>,
      <<"/", "b", "l", "o", "g", "/">>,
      <<"/", "c", "o", "n", "t", "a", "t", "o">>,
      <<"/", "a", "z", "-", "l", "i", "s", "t", "s">>,
      <<"/", "e", "m", "-", "b", "r", "e", "v", "e">>,
      <<"/", "a", "n", "i", "m", "e", "s", "-", "p", "o", "p", "u", "l", "a", "r", "e", "s">>,
      <<"/", "c", "a", "t", "e", "g", "o", "r", "i", "a">>,
      <<"/", "g", "e", "n", "e", "r", "o">> }

\* AnimePageExtractor.shouldSkipURL
shouldSkipURL(url) == \E pattern \in EXCLUDED_URL_PATTERNS : includes(url, pattern)

\* queryLower.replace(/\s+/g, '-')
spacesToDashes(s) ==
    ReplaceAll(s, 1, [i \in 1..Len(s) |-> SpaceRun(s, i)], [i \in 1..Len(s) |-> <<"-">>])

\* AnimePageExtractor.calculateMatchScore
calculateMatchScore(query, title, url) ==
    LET queryLower == toLowerCase(query)
        titleLower == toLowerCase(title)
        urlLower == toLowerCase(url)
    IN  IF titleLower = queryLower THEN 100
        ELSE IF includes(titleLower, queryLower) THEN 50
        ELSE IF includes(urlLower, spacesToDashes(queryLower)) THEN 30
        ELSE 0

RECURSIVE potentialLinks(_, _)
\* the while loop of extractPageURL over the links that
\* REGEX_PATTERNS.ANIME_PAGE_LINK finds: the links that are not skipped and
\* score above 0, each with its score
potentialLinks(links, query) ==
    IF links = <<>> THEN <<>>
    ELSE LET url == Head(links).url
             title == Head(links).title
             score == calculateMatchScore(query, title, url)
         IN  IF shouldSkipURL(url) THEN potentialLinks(Tail(links), query)
             ELSE IF score > 0
             THEN << [url |-> url, title |-> title, score |-> score] >>
                      \o potentialLinks(Tail(links), query)
             ELSE potentialLinks(Tail(links), query)

\* selectBestMatch with a sort that puts the last link of the highest score
\* first
selectBestMatch_lastOfEqual(candidates) ==
    IF Len(candidates) = 0 THEN <<>>
    ELSE LET best == {i \in 1..Len(candidates) :
                          \A j \in 1..Len(candidates) :
                              candidates[j].score <= candidates[i].score}
         IN  candidates[CHOOSE i \in best : \A j \in best : j <= i].url

\* AnimePageExtractor.selectBestMatch: the sort by descending score is stable,
\* so the first link of the highest score comes first
selectBestMatch(candidates) ==
    IF Len(candidates) = 0 THEN <<>>
    ELSE LET best == {i \in 1..Len(candidates) :
                          \A j \in 1..Len(candidates) :
                              candidates[j].score <= candidates[i].score}
         IN  candidates[Min(best)].url

\* AnimePageExtractor.extractPageURL
extractPageURL(links, query) == selectBestMatch(potentialLinks(links, query))

(***************************************************************************)
(* Q1N: the players of an episode page                                     *)
(***************************************************************************)
Str_chplay ==
    <<"c", "h", "p", "l", "a", "y">>

Str_ruplay ==
    <<"r", "u", "p", "l", "a", "y">>

Str_default ==
    <<"d", "e", "f", "a", "u", "l", "t">>

Str_disneycdn ==
    <<"d", "i", "s", "n", "e", "y", "c", "d", "n", ".", "n", "e", "t">>

Str_csst ==
    <<"c", "s", "s", "t", ".", "o", "n", "l", "i", "n", "e">>

Str_secvideo ==
    <<"s", "e", "c", "v", "i", "d", "e", "o">>

Str_aviso ==
    <<"/", "a", "v", "i", "s", "o", "/">>

Str_urlParam ==
    <<"u", "r", "l", "=">>

Str_aboutBlank ==
    <<"a", "b", "o", "u", "t", ":", "b", "l", "a", "n", "k">>

Str_playerBase ==
    <<"h", "t", "t", "p", "s", ":", "/", "/", "q", "1", "n", ".", "n", "e", "t", "/",
      "p", "l", "a", "y", "e", "r", "/">>

\* Provider.CONFIG
SUPPORTED_SERVERS == << Str_chplay, Str_ruplay >>

DEFAULT_SERVER == Str_chplay

\* An episode page is kept as the sequence of its elements, each one unit of
\* text long: an iframe with its src, or other text (src = <<>>).  The
\* lastIndex of a regular expression counts these units.

\* REGEX_PATTERNS.IFRAME_AVISO matches the iframe
MatchesIframeAviso(element) == includes(element.src, Str_aviso)

\* REGEX_PATTERNS.IFRAME_DIRECT matches the iframe
MatchesIframeDirect(element) ==
    \/ includes(element.src, <<"b", "l", "o", "g", "g", "e", "r", ".", "c", "o", "m">>)
    \/ includes(element.src, <<"y", "o", "u", "t", "u", "b", "e", ".", "c", "o", "m">>)
    \/ includes(element.src, <<"y", "o", "u", "t", "u", ".", "b", "e">>)

\* regex.exec(html) of a global regular expression whose lastIndex is
\* lastIndex: the first match that starts at lastIndex or later; index is 0
\* for null, and lastIndex is the value that exec leaves behind
exec(matches(_), html, lastIndex) ==
    LET found == {k \in (lastIndex + 1)..Len(html) : matches(html[k])}
    IN  IF found = {}
        THEN [index |-> 0, lastIndex |-> 0]
        ELSE [index |-> Min(found), lastIndex |-> Min(found)]

RECURSIVE NotAmpRun(_, _)
\* number of consecutive characters other than & from position i
NotAmpRun(s, i) ==
    IF i \in 1..Len(s) /\ s[i] # "&" THEN 1 + NotAmpRun(s, i + 1) ELSE 0

\* REGEX_PATTERNS.URL_PARAM, /url=([^&]+)/
URL_PARAM(s) ==
    LET at == {i \in 1..Len(s) :
                   /\ i + 3 <= Len(s)
                   /\ SubSeq(s, i, i + 3) = Str_urlParam
                   /\ NotAmpRun(s, i + 4) >= 1}
    IN  IF at = {} THEN NoMatch
        ELSE << SubSeq(s, Min(at) + 4, Min(at) + 3 + NotAmpRun(s, Min(at) + 4)) >>

\* the players map: the URL kept for each server, <<>> for a server without
\* an entry
NoPlayers == [chplay |-> <<>>, ruplay |-> <<>>]

\* Map.prototype.has
has(players, server) ==
    IF server = Str_chplay THEN players.chplay # <<>>
    ELSE IF server = Str_ruplay THEN players.ruplay # <<>>
    ELSE FALSE

\* Map.prototype.get, <<>> for undefined
get(players, server) ==
    IF server = Str_chplay THEN players.chplay
    ELSE IF server = Str_ruplay THEN players.ruplay
    ELSE <<>>

\* players.size
size(players) ==
    (IF players.chplay # <<>> THEN 1 ELSE 0) + (IF players.ruplay # <<>> THEN 1 ELSE 0)

\* PlayerExtractor.mapPlayerByUrl
mapPlayerByUrl(players, url) ==
    IF includes(url, Str_disneycdn) /\ ~has(players, Str_chplay)
    THEN [players EXCEPT !.chplay = url]
    ELSE IF (includes(url, Str_csst) \/ includes(url, Str_secvideo))
            /\ ~has(players, Str_ruplay)
    THEN [players EXCEPT !.ruplay = url]
    ELSE IF includes(url, Str_secvideo) /\ ~has(players, Str_ruplay)
    THEN [players EXCEPT !.ruplay = url]
    ELSE IF includes(url, Str_disneycdn)
    THEN [players EXCEPT !.chplay = url]
    ELSE IF ~has(players, Str_chplay)
    THEN [players EXCEPT !.chplay = url]
    ELSE IF ~has(players, Str_ruplay)
    THEN [players EXCEPT !.ruplay = url]
    ELSE players

\* PlayerExtractor.createFallbackPlayers
createFallbackPlayers(players, episodeId) ==
    [chplay |-> Str_playerBase \o Str_chplay \o <<"/">> \o episodeId,
     ruplay |-> Str_playerBase \o Str_ruplay \o <<"/">> \o episodeId]

\* PlayerExtractor.extractVideoUrl, given the answer of the player's site:
\* ok is FALSE when its page could not be fetched, video is the first video
\* URL that the patterns find in the page (<<>> when they find none).  The
\* result <<>> is null.
extractVideoUrl(playerUrl, response) ==
    IF ~response.ok THEN <<>>
    ELSE IF includes(playerUrl, Str_disneycdn)
    THEN playerUrl
    ELSE response.video

RECURSIVE avisoLoop(_, _, _)
\* the first while loop of extractFromHtml from the state lastIndex of
\* IFRAME_AVISO, up to the point where it stops: at the await of
\* extractVideoUrl (stop = "await", playerUrl the URL awaited), at the
\* URIError of decodeURIComponent (stop = "threw"), or at the null of exec
\* (stop = "end")
avisoLoop(html, lastIndex, players) ==
    LET match == exec(MatchesIframeAviso, html, lastIndex)
    IN  IF match.index = 0
        THEN [stop |-> "end", lastIndex |-> match.lastIndex, players |-> players,
              playerUrl |-> <<>>]
        ELSE LET iframeSrc == html[match.index].src
                 urlMatch == URL_PARAM(iframeSrc)
             IN  IF urlMatch # NoMatch
                 THEN IF decodeURIComponent(urlMatch[1]).ok
                      THEN [stop |-> "await", lastIndex |-> match.lastIndex,
                            players |-> players,
                            playerUrl |-> decodeURIComponent(urlMatch[1]).value]
                      ELSE [stop |-> "threw", lastIndex |-> match.lastIndex,
                            players |-> players, playerUrl |-> <<>>]
                 ELSE avisoLoop(html, match.lastIndex, mapPlayerByUrl(players, iframeSrc))

RECURSIVE directLoop(_, _, _)
\* the second while loop of extractFromHtml, which runs from the first exec
\* to the null of exec without a break, so that IFRAME_DIRECT is left with
\* the lastIndex 0 that it had
directLoop(html, lastIndex, players) ==
    LET match == exec(MatchesIframeDirect, html, lastIndex)
    IN  IF match.index = 0 THEN players
        ELSE directLoop(html, match.lastIndex,
                        mapPlayerByUrl(players, html[match.index].src))

\* faulty variant: an about:blank URL is returned like any other
selectBest_blankAllowed(players, preferredServer) ==
    LET preferred == get(players, trim(preferredServer))
    IN  IF preferred # <<>> THEN preferred
        ELSE IF players.chplay # <<>> THEN players.chplay
        ELSE players.ruplay

\* PlayerSelector.selectBest: the URL selected, <<>> when it throws
selectBest(players, preferredServer) ==
    LET cleanPreferredServer == trim(preferredServer)
        preferred == get(players, cleanPreferredServer)
        orDefault == IF preferred = <<>> THEN get(players, DEFAULT_SERVER) ELSE preferred
        orSecond == IF orDefault = <<>> THEN get(players, SUPPORTED_SERVERS[2])
                    ELSE orDefault
        playerUrl == IF orSecond = <<>>
                     THEN IF players.chplay # <<>> THEN players.chplay ELSE players.ruplay
                     ELSE orSecond
    IN  IF playerUrl = <<>> \/ includes(playerUrl, Str_aboutBlank) THEN <<>>
        ELSE playerUrl

\* Validator.validateEpisodeData does not throw
validEpisodeData(episode) ==
    episode.id # <<>> /\ episode.url # <<>> /\ trim(episode.url) # <<>>

\* what findEpisodeServer returns
Rejected == [status |-> "rejected", server |-> <<>>, url |-> <<>>]

\* the end of findEpisodeServer once extractFromPage has returned players:
\* ResponseBuilder.buildEpisodeServer, or the error of selectBest
episodeServer(players, server) ==
    LET selectedServer == IF server = Str_default \/ server = <<>>
                          THEN DEFAULT_SERVER ELSE server
        playerUrl == selectBest(players, selectedServer)
    IN  IF playerUrl = <<>> THEN Rejected
        ELSE [status |-> "resolved", server |-> selectedServer, url |-> playerUrl]

\* the end of extractFromPage: the fallback players after an error or for
\* an empty map
extractedPlayers(players, threw, episode) ==
    IF threw THEN createFallbackPlayers(players, episode.id)
    ELSE IF size(players) = 0 THEN createFallbackPlayers(players, episode.id)
    ELSE players

(***************************************************************************)
(* Q1N: the episodes of an anime                                           *)
(***************************************************************************)
\* Provider.CONFIG.MAX_EPISODES_SCAN
MAX_EPISODES_SCAN == 50

\* Validator.isValidAnimeId, !/^\d+$/.test(id)
isValidAnimeId(id) == ~(id # <<>> /\ \A i \in 1..Len(id) : id[i] \in Digits)

\* An anime page is kept as the element lists that the selectors of
\* SELECTORS.EPISODES.LISTS find in it, in the order of the selectors (the
\* selectors past the end of the sequence find nothing).  An element has a
\* link with href or none, the number after "episodio-" in the href (Null
\* when the href has none) and the number in its .numerando text (Null when
\* the text holds no number).

\* EpisodeParser.extractEpisodeNumber
extractNumber(element) ==
    IF element.urlNumber # Null THEN element.urlNumber
    ELSE IF element.numerando # Null /\ element.numerando # 0 THEN element.numerando
    ELSE 1

\* EpisodeParser.parseEpisodeElement on the element at position k of its
\* list: <<>> stands for null
parseEpisodeElement(element, k) ==
    IF ~element.href THEN <<>>
    ELSE << [number |-> extractNumber(element), url |-> <<"page", k>>] >>

\* the episodes of one list, in document order
RECURSIVE parseList(_, _)
parseList(list, k) ==
    IF k > Len(list) THEN <<>>
    ELSE parseEpisodeElement(list[k], k) \o parseList(list, k + 1)

\* EpisodeParser.parseFromAnimePage: the episodes of the first list that has
\* elements
RECURSIVE parseFromLists(_, _)
parseFromLists(lists, j) ==
    IF j > Len(lists) THEN <<>>
    ELSE IF Len(lists[j]) > 0 THEN parseList(lists[j], 1)
    ELSE parseFromLists(lists, j + 1)

parseFromAnimePage(page) == parseFromLists(page.lists, 1)

\* Array.prototype.sort with (a, b) => a.number - b.number: a stable sort
RECURSIVE insertByNumber(_, _)
insertByNumber(sorted, episode) ==
    IF sorted = <<>> THEN << episode >>
    ELSE IF sorted[Len(sorted)].number <= episode.number
    THEN Append(sorted, episode)
    ELSE Append(insertByNumber(SubSeq(sorted, 1, Len(sorted) - 1), episode),
                sorted[Len(sorted)])

RECURSIVE sortFrom(_, _, _)
sortFrom(episodes, k, sorted) ==
    IF k > Len(episodes) THEN sorted
    ELSE sortFrom(episodes, k + 1, insertByNumber(sorted, episodes[k]))

\* faulty variant: the episodes stay in document order
sortEpisodes_documentOrder(episodes) == episodes

\* Utils.sortEpisodes
sortEpisodes(episodes) == sortFrom(episodes, 1, <<>>)

\* the episode that EpisodeFinder.findFromEpisodePages builds for number i
probedEpisode(i) == [number |-> i, url |-> <<"probe", i>>]

(***************************************************************************)
(* MangaLivre: requests                                                    *)
(***************************************************************************)
\* the default of the retries parameter of fetchWithRetry
RETRIES == 1

\* a request failed: fetch threw, or the status of the response is not ok
failed(outcome) == outcome # "ok"

\* faulty variant: one more attempt than retries allows
afterAttempt_oneMore(attempt, retries, outcome) ==
    IF ~failed(outcome) THEN "response"
    ELSE IF attempt = retries + 1 THEN "null"
    ELSE "again"

\* Provider.fetchWithRetry: what the loop does after the attempt numbered
\* attempt (from 0): it returns the response, returns null, or goes round
afterAttempt(attempt, retries, outcome) ==
    IF ~failed(outcome) THEN "response"
    ELSE IF attempt = retries THEN "null"
    ELSE "again"

\* faulty variant: a digit makes a mangaId valid too
isValidMangaId_anyWordChar(mangaId) ==
    \E i \in 1..Len(mangaId) : mangaId[i] \in WordChars \cup {"-"}

\* Provider.isValidMangaId, /[a-zA-Z-]/.test(mangaId)
isValidMangaId(mangaId) ==
    \E i \in 1..Len(mangaId) :
        mangaId[i] \in LowerLetters \cup UpperLetters \cup {"-"}

\* Provider.isValidChapterId
isValidChapterId(chapterId) == startsWith(chapterId, <<"h", "t", "t", "p">>)

\* parseChapterPages: this.selectors.pages.content, .reading and .page, in
\* the order of the pageSelectors array
pageSelectors == << ".reading-content img", ".manga-reading img", ".manga-page img" >>

\* extractPageImageUrl with the two attributes the other way round
extractPageImageUrl_srcFirst(element) ==
    trim(IF element.src # <<>> THEN element.src ELSE element.dataSrc)

\* Provider.extractPageImageUrl: an attribute that is absent reads as
\* undefined, which || passes over like the empty string; the empty result
\* stands for null
extractPageImageUrl(element) ==
    trim(IF element.dataSrc # <<>> THEN element.dataSrc ELSE element.src)

\* the test of search on its query, opts?.query?.trim()
isValidQuery(query) == trim(query) # <<>>

\* what an operation returns: where its entries come from ("none" for the
\* empty array returned without a parse) and how many they are
NoEntries == [from |-> "none", count |-> 0]

\* Provider.parseChapters: of the elements that a selector finds in a body,
\* the chapters are those that parseChapterElement can parse
parseChapters(body) == body.parsable

\* Provider.fetchChaptersViaAjax once its request is over: the chapters
\* parsed from an ok response that holds chapter elements, else none
ajaxChapters(ajaxOutcome, ajaxBody) ==
    IF ~failed(ajaxOutcome) /\ ajaxBody.elements > 0
    THEN parseChapters(ajaxBody)
    ELSE 0

\* faulty variant: chapter elements in the AJAX response end the search for
\* chapters, even when none of them can be parsed
chaptersFound_anyAjaxElement(ajaxOutcome, ajaxBody, pageBody) ==
    IF ~failed(ajaxOutcome) /\ ajaxBody.elements > 0
    THEN [from |-> "ajax", count |-> parseChapters(ajaxBody)]
    ELSE IF pageBody.elements > 0
    THEN [from |-> "html", count |-> parseChapters(pageBody)]
    ELSE NoEntries

\* the end of findChapters once the AJAX request is over: the chapters of
\* the AJAX method when it has any, else those parsed from the listing of the
\* manga page when the page has listing elements, else none
chaptersFound(ajaxOutcome, ajaxBody, pageBody) ==
    IF ajaxChapters(ajaxOutcome, ajaxBody) > 0
    THEN [from |-> "ajax", count |-> ajaxChapters(ajaxOutcome, ajaxBody)]
    ELSE IF pageBody.elements > 0
    THEN [from |-> "html", count |-> parseChapters(pageBody)]
    ELSE NoEntries

(***************************************************************************)
(* Inputs of the parser: torrent names and episode titles                  *)
(***************************************************************************)
\* longest torrent name, in tokens
MaxNameTokens == 3

NameTokens ==
    { <<" ">>,
      <<"-">>,
      <<" ", "-", " ", "0", "5", " ">>,
      <<"1">>,
      <<"1", "2">>,
      <<"0", "0", "1">>,
      <<"7", "2", "0">>,
      <<"S", "0", "1">>,
      <<"S", "0", "1", "E", "0", "2">>,
      <<"E", "0", "5">>,
      <<"e", "p">>,
      <<"B", "a", "t", "c", "h">> }

Names ==
    { Flatten(ts) : ts \in UNION { [1..n -> NameTokens] : n \in 0..MaxNameTokens } }

EpisodeTitles ==
    { <<>>,
      <<"E", "p", "i", "s", OAcute, "d", "i", "o", " ", "0", "7">>,
      <<"E", "p", "i", "s", OAcute, "d", "i", "o", " ", "0">>,
      <<"0", "1", "~", "1", "2">> }

\* longest search query, in tokens
MaxQueryTokens == 3

QueryTokens ==
    { <<"x">>,
      <<" ">>,
      <<"2">>,
      <<"s", "e", "a", "s", "o", "n">>,
      <<"S", "e", "a", "s", "o", "n", " ", "2">>,
      <<"2", "n", "d">>,
      <<"F", "i", "r", "s", "t">>,
      <<"m", "o", "v", "i", "e">>,
      <<"O", "V", "A">>,
      <<"s", "p", "e", "c", "i", "a", "l">>,
      <<"p", "a", "r", "t">> }

Queries ==
    { Flatten(ts) : ts \in UNION { [1..n -> QueryTokens] : n \in 0..MaxQueryTokens } }

(***************************************************************************)
(* Inputs of the DarkMahou searches: pages of the site                     *)
(***************************************************************************)
\* &dn=S01E02%20720p
MagnetA ==
    [scheme |-> "magnet:?", hash |-> "hashA",
     dn |-> <<"S", "0", "1", "E", "0", "2", "%", "2", "0", "7", "2", "0", "p">>]

\* no &dn= parameter
MagnetB == [scheme |-> "magnet:?", hash |-> "hashB", dn |-> <<>>]

\* a link written MAGNET:?..., which only the regular expression accepts
MagnetU == [scheme |-> "MAGNET:?", hash |-> "hashU", dn |-> <<>>]

\* a link without a btih hash, &dn=1080p%
MagnetN ==
    [scheme |-> "magnet:?", hash |-> "", dn |-> <<"1", "0", "8", "0", "p", "%">>]

PageRows ==
    { [title |-> <<"E", "p", "i", "s", OAcute, "d", "i", "o", " ", "0", "7">>,
       reso |-> <<"1", "0", "8", "0", "p">>, href |-> MagnetA],
      [title |-> <<"E", "p", "i", "s", OAcute, "d", "i", "o", " ", "0", "8">>,
       reso |-> <<">", ">", " ", "7", "2", "0", "p">>, href |-> MagnetB],
      [title |-> <<"0", "1", "~", "1", "2">>,
       reso |-> <<"1", "0", "8", "0", "p">>, href |-> MagnetB],
      [title |-> <<"E", "p", "i", "s", OAcute, "d", "i", "o", " ", "0">>,
       reso |-> <<>>, href |-> MagnetU] }

\* most rows of an anime page
MaxRows == 2

LoadDocModes == {"ok", "notFunction", "throwsAtCall", "throwsInEach"}

AnimePages ==
    [ rows : UNION { [1..n -> PageRows] : n \in 0..MaxRows },
      loose : { <<>>, << MagnetN >> },
      loadDoc : LoadDocModes ]

Str_Naruto == <<"N", "a", "r", "u", "t", "o">>

PageLinks ==
    { [url |-> Str_host \o <<"/", "t", "a", "g", "/">>,
       title |-> Str_Naruto],
      [url |-> Str_host \o <<"/", "e", "m", "-", "b", "r", "e", "v", "e", "/">>,
       title |-> Str_Naruto],
      [url |-> Str_host \o <<"/", "n", "2", "/">>,
       title |-> Str_Naruto \o <<" ", "2", OrdA, " ">> \o Str_temporada],
      [url |-> Str_host \o <<"/", "n", "a", "r", "u", "t", "o", "/">>,
       title |-> <<"S", "h", "i", "p", "p", "u", "d", "e", "n">>],
      [url |-> Str_host \o <<"/", "n", "/">>,
       title |-> Str_Naruto] }

\* most links of a search page
MaxLinks == 2

SearchPages == UNION { [1..n -> PageLinks] : n \in 0..MaxLinks }

SearchQueries ==
    { <<>>, Str_Naruto, Str_Naruto \o <<" ", "S", "e", "a", "s", "o", "n", " ", "2">>,
      Str_Naruto \o << LoneSurrogate >> }

\* the media of a smart search
Medias == { [romajiTitle |-> <<>>, englishTitle |-> Str_Naruto] }

SmartSearchOptions ==
    [ query : { <<>>, Str_Naruto, Str_Naruto \o << LoneSurrogate >> },
      media : Medias,
      episodeNumber : {0, 7},
      resolution : { <<>>, <<"7", "2", "0", "p">> },
      batch : BOOLEAN ]

NoOptions ==
    [query |-> <<>>, media |-> [romajiTitle |-> <<>>, englishTitle |-> <<>>],
     episodeNumber |-> 0, resolution |-> <<>>, batch |-> FALSE]

NoPage == [rows |-> <<>>, loose |-> <<>>, loadDoc |-> "ok"]

\* the torrents that the host hands to getTorrentInfoHash: those that the
\* provider built (infoHash as extractInfoHash of the link), and others
HashTorrents ==
    [ infoHash : {"", "hashH"},
      magnetLink : {NoMagnet, MagnetA, MagnetB, MagnetU, MagnetN} ]

\* number of getTorrentInfoHash calls
MaxHashCalls == 2

(***************************************************************************)
(* Inputs of Q1N findEpisodeServer: episodes, episode pages, player sites  *)
(***************************************************************************)
\* an aviso iframe whose url parameter decodes to disneycdn.net/a
IframeAvisoDisney ==
    [src |->
        <<"/", "a", "v", "i", "s", "o", "/", "?", "u", "r", "l", "=", "d", "i", "s",
          "n", "e", "y", "c", "d", "n", ".", "n", "e", "t", "%", "2", "F", "a">>]

\* an aviso iframe whose url parameter decodes to secvideo/b
IframeAvisoSecvideo ==
    [src |->
        <<"/", "a", "v", "i", "s", "o", "/", "?", "u", "r", "l", "=", "s", "e", "c",
          "v", "i", "d", "e", "o", "%", "2", "F", "b">>]

\* an aviso iframe whose url parameter is no valid escape sequence
IframeAvisoMalformed ==
    [src |->
        <<"/", "a", "v", "i", "s", "o", "/", "?", "u", "r", "l", "=", "%", "z", "z">>]

\* an aviso iframe without url parameter
IframeAvisoPlain ==
    [src |->
        <<"/", "a", "v", "i", "s", "o", "/", "c">>]

\* a direct iframe
IframeDirect ==
    [src |->
        <<"b", "l", "o", "g", "g", "e", "r", ".", "c", "o", "m", "/", "d">>]

WellFormedElements ==
    { IframeAvisoDisney, IframeAvisoSecvideo, IframeAvisoPlain, IframeDirect }

\* an aviso iframe that leads nowhere
IframeAvisoBlank ==
    [src |->
        <<"/", "a", "v", "i", "s", "o", "/">> \o Str_aboutBlank]

\* text without iframe
OtherText == [src |-> <<>>]

PageElements ==
    WellFormedElements \cup { IframeAvisoMalformed, IframeAvisoBlank, OtherText }

\* most elements of an episode page
MaxElements == 2

\* the page that could not be fetched (fetchHtml returns null)
NoHtml == << [src |-> <<"n", "u", "l", "l">>], [src |-> <<"n", "u", "l", "l">>],
             [src |-> <<"n", "u", "l", "l">>], [src |-> <<"n", "u", "l", "l">>] >>

EpisodePages == UNION { [1..n -> PageElements] : n \in 0..MaxElements }

WellFormedPages == UNION { [1..n -> WellFormedElements] : n \in 1..MaxElements }

\* what the sites of the players answer: the page of disneycdn.net/a is
\* fetched, and the page of secvideo/b holds a video URL
playerSite(playerUrl) ==
    IF includes(playerUrl, Str_secvideo)
    THEN [ok |-> TRUE,
          video |-> Str_secvideo \o <<"/", "b", ".", "m", "p", "4">>]
    ELSE [ok |-> TRUE, video |-> <<>>]

Episodes ==
    { [id |-> <<"e", "1">>, url |-> <<"u">>],
      [id |-> <<>>, url |-> <<"u">>],
      [id |-> <<"e", "1">>, url |-> <<" ">>] }

ValidEpisodes == { episode \in Episodes : validEpisodeData(episode) }

Servers == { Str_default, Str_ruplay }

\* number of findEpisodeServer calls
MaxCalls == 2

Calls == 1..MaxCalls

NoEpisode == [id |-> <<>>, url |-> <<>>]

(***************************************************************************)
(* Inputs of the requests: arguments and answers of the network            *)
(***************************************************************************)
\* the elements of the episode lists of an anime page
EpisodeElements ==
    { [href |-> FALSE, urlNumber |-> Null, numerando |-> 5],
      [href |-> TRUE, urlNumber |-> 2, numerando |-> Null],
      [href |-> TRUE, urlNumber |-> 1, numerando |-> 4],
      [href |-> TRUE, urlNumber |-> Null, numerando |-> 3],
      [href |-> TRUE, urlNumber |-> Null, numerando |-> Null] }

\* most elements of one list
MaxListed == 2

EpisodeLists == UNION { [1..n -> EpisodeElements] : n \in 0..MaxListed }

\* the lists of at most one element
ShortLists == { list \in EpisodeLists : Len(list) <= 1 }

\* the pages: no list at all, or a list of any length that may come after
\* a short list
AnimePageBodies ==
    [ lists : { <<>> } \cup
              { earlier \o << last >> :
                    earlier \in { <<>> } \cup { << list >> : list \in ShortLists },
                    last \in EpisodeLists } ]

NoAnimePage == [lists |-> <<>>]

AnimeIds == { <<"1", "2">>, <<"n", "a", "r", "u", "t", "o">> }

\* the img elements of a chapter page, by their data-src and src attributes;
\* the empty string stands for an attribute that is absent or empty
Images ==
    { [dataSrc |-> <<>>, src |-> <<>>],
      [dataSrc |-> <<" ">>, src |-> <<"b">>],
      [dataSrc |-> <<"a">>, src |-> <<"b">>],
      [dataSrc |-> <<>>, src |-> <<" ", "b", " ">>] }

\* most elements that one selector finds in a chapter page
MaxImages == 2

ImageLists == UNION { [1..n -> Images] : n \in 0..MaxImages }

\* the chapter pages, by what each selector finds in them
ChapterDocs == [ {pageSelectors[k] : k \in 1..Len(pageSelectors)} -> ImageLists ]

NoChapterDoc == [ selector \in {pageSelectors[k] : k \in 1..Len(pageSelectors)} |-> <<>> ]

\* how a request ends
Outcomes == {"ok", "notOk", "throws"}

\* most elements that the selectors find in a response
MaxEntries == 1

\* a response body, kept as the number of elements that the selectors of
\* the operation find in it and the number of those that can be parsed
Bodies ==
    { [elements |-> e, parsable |-> n] : e \in 0..MaxEntries, n \in 0..MaxEntries }
        \ { b \in [elements : 0..MaxEntries, parsable : 0..MaxEntries] :
               b.parsable > b.elements }

NoBody == [elements |-> 0, parsable |-> 0]

MangaQueries == { <<>>, <<" ">>, <<"x">> }

MangaIds == { <<"1", "2">>, <<"d", "a", "n">> }

ChapterIds == { <<"c", "1">>, <<"h", "t", "t", "p", ":", "c", "1">> }

\* number of operations called one after the other
MaxOperations == 2

(***************************************************************************)
(* State                                                                   *)
(***************************************************************************)
VARIABLES
    pName,          \* TorrentParser: the name argument
    pTitle,         \* TorrentParser: the episodeTitle argument
    pBatchCalled,   \* isBatchTorrent has returned
    pBatch,         \* its result
    pEpisodeCalled, \* extractEpisodeNumber has returned
    pEpisode,       \* its result
    qQuery,         \* PortugueseTranslator: the query argument
    qCalled,        \* convertQuery has returned
    qResult,        \* its result
    sOp,            \* DarkMahou Provider: the operation called
    sOpts,          \* its options
    sPc,            \* where the call stands
    sLinks,         \* the links of the search page, until the anime page is answered
    sPageURL,       \* the anime page that the search page led to
    sPage,          \* the anime page received
    sParsed,        \* parseTorrentsFromHTML has run on it
    sSearchResults, \* what search returned
    sResult,        \* what the operation returned
    sCause,         \* where search ended, and on what outcome
    eLastIndex,     \* Q1N: Provider.REGEX_PATTERNS.IFRAME_AVISO.lastIndex
    ePc,            \* where each findEpisodeServer call stands
    eEpisode,       \* its episode argument
    eServer,        \* its server argument
    ePage,          \* the episode page it received
    ePlayers,       \* its players map
    ePlayerUrl,     \* the player URL whose page it awaits
    eResult,        \* what it returned
    mOp,            \* requests: the operation called
    mArg,           \* its argument: query, mangaId or chapterId
    mPc,            \* where it stands
    mUrl,           \* the URL that fetchWithRetry was given
    mAttempt,       \* the attempt counter of fetchWithRetry
    mPageBody,      \* the body of the response that fetchWithRetry returned
    mRequests,      \* the requests that the operation issued, with how they ended
    mResult,        \* what the operation returned
    mOperations,    \* number of operations called so far
    hLog,           \* the getTorrentInfoHash calls: torrent and result
    fPc,            \* Q1N findEpisodes: where the call stands
    fId,            \* its argument
    fLoaded,        \* the anime page was loaded
    fPage,          \* the anime page
    fI,             \* the loop counter of findFromEpisodePages
    fHeads,         \* the outcomes of the HEAD requests so far
    fEpisodes,      \* the episodes collected by findFromEpisodePages
    fResult,        \* what findEpisodes returned
    cPc,            \* MangaLivre parseChapterPages: where the call stands
    cDoc,           \* its document
    cSelector,      \* the position in pageSelectors
    cElements,      \* the elements selected
    cIndex,         \* the index that each hands to its callback
    cResults,       \* the pages pushed so far
    cResult         \* what parseChapterPages returned

parserVars == << pName, pTitle, pBatchCalled, pBatch, pEpisodeCalled, pEpisode >>

queryVars == << qQuery, qCalled, qResult >>

searchVars ==
    << sOp, sOpts, sPc, sLinks, sPageURL, sPage, sParsed, sSearchResults, sResult, sCause >>

serverVars ==
    << eLastIndex, ePc, eEpisode, eServer, ePage, ePlayers, ePlayerUrl, eResult >>

hashVars == << hLog >>

episodesVars ==
    << fPc, fId, fLoaded, fPage, fI, fHeads, fEpisodes, fResult >>

chapterPagesVars ==
    << cPc, cDoc, cSelector, cElements, cIndex, cResults, cResult >>

requestVars ==
    << mOp, mArg, mPc, mUrl, mAttempt, mPageBody, mRequests, mResult, mOperations >>

vars == << parserVars, queryVars, searchVars, serverVars, requestVars, hashVars, episodesVars, chapterPagesVars >>

\* the parser before any input was given to it
ParserIdle ==
    /\ pName = <<>>
    /\ pTitle = <<>>
    /\ pBatchCalled = FALSE
    /\ pBatch = FALSE
    /\ pEpisodeCalled = FALSE
    /\ pEpisode = Null

\* the translator before any input was given to it
QueryIdle ==
    /\ qQuery = <<>>
    /\ qCalled = FALSE
    /\ qResult = <<>>

\* the DarkMahou provider before any call
SearchIdle ==
    /\ sOp = "none"
    /\ sOpts = NoOptions
    /\ sPc = "idle"
    /\ sLinks = <<>>
    /\ sPageURL = <<>>
    /\ sPage = NoPage
    /\ sParsed = FALSE
    /\ sSearchResults = <<>>
    /\ sResult = <<>>
    /\ sCause = [at |-> "none", outcome |-> "none"]

\* the Q1N provider as it is loaded, before any call
ServerIdle ==
    /\ eLastIndex = 0
    /\ ePc = [c \in Calls |-> "idle"]
    /\ eEpisode = [c \in Calls |-> NoEpisode]
    /\ eServer = [c \in Calls |-> <<>>]
    /\ ePage = [c \in Calls |-> <<>>]
    /\ ePlayers = [c \in Calls |-> NoPlayers]
    /\ ePlayerUrl = [c \in Calls |-> <<>>]
    /\ eResult = [c \in Calls |-> Rejected]

\* no operation that issues requests has been called
RequestIdle ==
    /\ mOp = "none"
    /\ mArg = <<>>
    /\ mPc = "idle"
    /\ mUrl = "none"
    /\ mAttempt = 0
    /\ mPageBody = NoBody
    /\ mRequests = <<>>
    /\ mResult = NoEntries
    /\ mOperations = 0

\* getTorrentInfoHash has not been called
HashIdle == hLog = <<>>

\* parseChapterPages has not been called
ChapterPagesIdle ==
    /\ cPc = "idle"
    /\ cDoc = NoChapterDoc
    /\ cSelector = 1
    /\ cElements = <<>>
    /\ cIndex = 0
    /\ cResults = <<>>
    /\ cResult = <<>>

\* findEpisodes has not been called
EpisodesIdle ==
    /\ fPc = "idle"
    /\ fId = <<>>
    /\ fLoaded = FALSE
    /\ fPage = NoAnimePage
    /\ fI = 1
    /\ fHeads = <<>>
    /\ fEpisodes = <<>>
    /\ fResult = <<>>

(***************************************************************************)
(* Specification of the parser: both functions applied to one input        *)
(***************************************************************************)
ParserInit ==
    /\ pName \in Names
    /\ pTitle \in EpisodeTitles
    /\ pBatchCalled = FALSE
    /\ pBatch = FALSE
    /\ pEpisodeCalled = FALSE
    /\ pEpisode = Null
    /\ QueryIdle
    /\ SearchIdle
    /\ ServerIdle
    /\ RequestIdle
    /\ HashIdle
    /\ EpisodesIdle
    /\ ChapterPagesIdle

CallIsBatchTorrent ==
    /\ ~pBatchCalled
    /\ pBatchCalled' = TRUE
    /\ pBatch' = isBatchTorrent(pName, pTitle)
    /\ UNCHANGED << pName, pTitle, pEpisodeCalled, pEpisode >>
    /\ UNCHANGED << queryVars, searchVars, serverVars, requestVars, hashVars, episodesVars, chapterPagesVars >>

CallExtractEpisodeNumber ==
    /\ ~pEpisodeCalled
    /\ pEpisodeCalled' = TRUE
    /\ pEpisode' = extractEpisodeNumber(pName, pTitle)
    /\ UNCHANGED << pName, pTitle, pBatchCalled, pBatch >>
    /\ UNCHANGED << queryVars, searchVars, serverVars, requestVars, hashVars, episodesVars, chapterPagesVars >>

ParserNext == CallIsBatchTorrent \/ CallExtractEpisodeNumber

SpecParser == ParserInit /\ [][ParserNext]_vars

(***************************************************************************)
(* Specification of the translator: convertQuery applied to one query      *)
(***************************************************************************)
QueryInit ==
    /\ qQuery \in Queries
    /\ qCalled = FALSE
    /\ qResult = <<>>
    /\ ParserIdle
    /\ SearchIdle
    /\ ServerIdle
    /\ RequestIdle
    /\ HashIdle
    /\ EpisodesIdle
    /\ ChapterPagesIdle

CallConvertQuery ==
    /\ ~qCalled
    /\ qCalled' = TRUE
    /\ qResult' = convertQuery(qQuery)
    /\ UNCHANGED qQuery
    /\ UNCHANGED << parserVars, searchVars, serverVars, requestVars, hashVars, episodesVars, chapterPagesVars >>

QueryNext == CallConvertQuery

SpecQuery == QueryInit /\ [][QueryNext]_vars

(***************************************************************************)
(* Specification of the DarkMahou provider: one search or smartSearch call *)
(***************************************************************************)
SearchInit ==
    /\ SearchIdle
    /\ ParserIdle
    /\ QueryIdle
    /\ ServerIdle
    /\ RequestIdle
    /\ HashIdle
    /\ EpisodesIdle
    /\ ChapterPagesIdle

\* the query that search is given by the operation op called with opts
queryOf(op, opts) ==
    IF op = "smartSearch"
    THEN IF opts.query # <<>> THEN opts.query
         ELSE IF opts.media.romajiTitle # <<>> THEN opts.media.romajiTitle
         ELSE opts.media.englishTitle
    ELSE opts.query

\* Provider.search is called: it builds the search URL outside any try, so
\* the promise it returns is rejected when encodeURIComponent throws
CallSearch(query) ==
    /\ sPc = "idle"
    /\ sOp' = "search"
    /\ sOpts' = [NoOptions EXCEPT !.query = query]
    /\ IF encodeURIComponentThrows(convertQuery(query))
       THEN sPc' = "rejected" /\ sCause' = [at |-> "query", outcome |-> "throws"]
       ELSE sPc' = "searchFetch" /\ sCause' = sCause
    /\ UNCHANGED << sLinks, sPageURL, sPage, sParsed, sSearchResults, sResult >>
    /\ UNCHANGED << parserVars, queryVars, serverVars, requestVars, hashVars, episodesVars, chapterPagesVars >>

\* Provider.smartSearch is called and calls search
CallSmartSearch(opts) ==
    /\ sPc = "idle"
    /\ sOp' = "smartSearch"
    /\ sOpts' = opts
    /\ IF encodeURIComponentThrows(convertQuery(queryOf("smartSearch", opts)))
       THEN sPc' = "done" /\ sCause' = [at |-> "query", outcome |-> "throws"]
       ELSE sPc' = "searchFetch" /\ sCause' = sCause
    /\ UNCHANGED << sLinks, sPageURL, sPage, sParsed, sSearchResults, sResult >>
    /\ UNCHANGED << parserVars, queryVars, serverVars, requestVars, hashVars, episodesVars, chapterPagesVars >>

\* the query that search is given
searchQuery == queryOf(sOp, sOpts)

\* search returns results: to the caller, or to smartSearch that awaits it
searchReturns(results, cause) ==
    /\ sSearchResults' = results
    /\ sCause' = cause
    /\ IF sOp = "search"
       THEN sResult' = results /\ sPc' = "done"
       ELSE sResult' = sResult /\ sPc' = "filter"

\* the request for the search page fails (outcome "throws"), or is answered
\* with a status that is not ok (outcome "notOk")
SearchFetchFails(outcome) ==
    /\ sPc = "searchFetch"
    /\ searchReturns(<<>>, [at |-> "search", outcome |-> outcome])
    /\ UNCHANGED << sOp, sOpts, sLinks, sPageURL, sPage, sParsed >>
    /\ UNCHANGED << parserVars, queryVars, serverVars, requestVars, hashVars, episodesVars, chapterPagesVars >>

\* the search page arrives
SearchFetchReturns(links) ==
    /\ sPc = "searchFetch"
    /\ sLinks' = links
    /\ LET convertedQuery == convertQuery(searchQuery)
           animePageURL == extractPageURL(links, convertedQuery)
       IN  IF animePageURL = <<>>
           THEN /\ searchReturns(<<>>, [at |-> "link", outcome |-> "none"])
                /\ UNCHANGED sPageURL
           ELSE /\ sPageURL' = animePageURL
                /\ sPc' = "pageFetch"
                /\ UNCHANGED << sSearchResults, sResult, sCause >>
    /\ UNCHANGED << sOp, sOpts, sPage, sParsed >>
    /\ UNCHANGED << parserVars, queryVars, serverVars, requestVars, hashVars, episodesVars, chapterPagesVars >>

\* the request for the anime page fails (fetchTorrentsFromAnimePage)
PageFetchFails(outcome) ==
    /\ sPc = "pageFetch"
    /\ sLinks' = <<>>
    /\ searchReturns(<<>>, [at |-> "page", outcome |-> outcome])
    /\ UNCHANGED << sOp, sOpts, sPageURL, sPage, sParsed >>
    /\ UNCHANGED << parserVars, queryVars, serverVars, requestVars, hashVars, episodesVars, chapterPagesVars >>

\* the anime page arrives and is parsed
PageFetchReturns(page) ==
    /\ sPc = "pageFetch"
    /\ sLinks' = <<>>
    /\ sPage' = page
    /\ sParsed' = TRUE
    /\ searchReturns(parseTorrentsFromHTML(page, sPageURL), [at |-> "parsed", outcome |-> "ok"])
    /\ UNCHANGED << sOp, sOpts, sPageURL >>
    /\ UNCHANGED << parserVars, queryVars, serverVars, requestVars, hashVars, episodesVars, chapterPagesVars >>

\* smartSearch goes on after search has returned
SmartSearchReturns ==
    /\ sPc = "filter"
    /\ sResult' = IF Len(sSearchResults) = 0 THEN <<>>
                  ELSE applySmartSearchFilters(sSearchResults, sOpts)
    /\ sPc' = "done"
    /\ UNCHANGED << sOp, sOpts, sLinks, sPageURL, sPage, sParsed, sSearchResults, sCause >>
    /\ UNCHANGED << parserVars, queryVars, serverVars, requestVars, hashVars, episodesVars, chapterPagesVars >>

SearchNext ==
    \/ \E query \in SearchQueries : CallSearch(query)
    \/ \E opts \in SmartSearchOptions : CallSmartSearch(opts)
    \/ \E outcome \in {"notOk", "throws"} : SearchFetchFails(outcome)
    \/ \E links \in SearchPages : SearchFetchReturns(links)
    \/ \E outcome \in {"notOk", "throws"} : PageFetchFails(outcome)
    \/ \E page \in AnimePages : PageFetchReturns(page)
    \/ SmartSearchReturns

SpecSearch == SearchInit /\ [][SearchNext]_vars

(***************************************************************************)
(* Specifications of Q1N findEpisodeServer                                 *)
(***************************************************************************)
ServerInit ==
    /\ ServerIdle
    /\ ParserIdle
    /\ QueryIdle
    /\ SearchIdle
    /\ RequestIdle
    /\ HashIdle
    /\ EpisodesIdle
    /\ ChapterPagesIdle

\* call c returns result
returnServer(c, result) ==
    /\ eResult' = [eResult EXCEPT ![c] = result]
    /\ ePc' = [ePc EXCEPT ![c] = "done"]

\* extractFromHtml of call c runs on from the state of IFRAME_AVISO, with
\* the players it has so far, until its next await or to the end of
\* findEpisodeServer
continueExtraction(c, html, players) ==
    LET loop == avisoLoop(html, eLastIndex, players)
    IN  /\ eLastIndex' = loop.lastIndex
        /\ IF loop.stop = "await"
           THEN /\ ePlayers' = [ePlayers EXCEPT ![c] = loop.players]
                /\ ePlayerUrl' = [ePlayerUrl EXCEPT ![c] = loop.playerUrl]
                /\ ePc' = [ePc EXCEPT ![c] = "fetchPlayer"]
                /\ UNCHANGED eResult
           ELSE LET extracted ==
                        extractedPlayers(
                            IF loop.stop = "threw" THEN loop.players
                            ELSE directLoop(html, 0, loop.players),
                            loop.stop = "threw", eEpisode[c])
                IN  /\ ePlayers' = [ePlayers EXCEPT ![c] = extracted]
                    /\ ePlayerUrl' = [ePlayerUrl EXCEPT ![c] = <<>>]
                    /\ returnServer(c, episodeServer(extracted, eServer[c]))

\* findEpisodeServer is called: it validates the episode and requests its page
CallFindEpisodeServer(c, episode, server) ==
    /\ ePc[c] = "idle"
    /\ eEpisode' = [eEpisode EXCEPT ![c] = episode]
    /\ eServer' = [eServer EXCEPT ![c] = server]
    /\ IF validEpisodeData(episode)
       THEN ePc' = [ePc EXCEPT ![c] = "fetchPage"] /\ UNCHANGED eResult
       ELSE returnServer(c, Rejected)
    /\ UNCHANGED << eLastIndex, ePage, ePlayers, ePlayerUrl >>
    /\ UNCHANGED << parserVars, queryVars, searchVars, requestVars, hashVars, episodesVars, chapterPagesVars >>

\* the episode page could not be fetched
EpisodePageFails(c) ==
    /\ ePc[c] = "fetchPage"
    /\ ePage' = [ePage EXCEPT ![c] = NoHtml]
    /\ returnServer(c, Rejected)
    /\ UNCHANGED << eLastIndex, eEpisode, eServer, ePlayers, ePlayerUrl >>
    /\ UNCHANGED << parserVars, queryVars, searchVars, requestVars, hashVars, episodesVars, chapterPagesVars >>

\* the episode page arrives: an empty body is taken for a page that could not
\* be loaded (!html), otherwise extractFromHtml starts
EpisodePageReturns(c, html) ==
    /\ ePc[c] = "fetchPage"
    /\ ePage' = [ePage EXCEPT ![c] = html]
    /\ IF html = <<>>
       THEN /\ returnServer(c, Rejected)
            /\ UNCHANGED << eLastIndex, ePlayers, ePlayerUrl >>
       ELSE continueExtraction(c, html, NoPlayers)
    /\ UNCHANGED << eEpisode, eServer >>
    /\ UNCHANGED << parserVars, queryVars, searchVars, requestVars, hashVars, episodesVars, chapterPagesVars >>

\* extractVideoUrl returns to the loop of extractFromHtml, which goes on
PlayerPageReturns(c) ==
    /\ ePc[c] = "fetchPlayer"
    /\ LET videoUrl == extractVideoUrl(ePlayerUrl[c], playerSite(ePlayerUrl[c]))
       IN  continueExtraction(c, ePage[c],
               mapPlayerByUrl(ePlayers[c],
                   IF videoUrl # <<>> THEN videoUrl ELSE ePlayerUrl[c]))
    /\ UNCHANGED << eEpisode, eServer, ePage >>
    /\ UNCHANGED << parserVars, queryVars, searchVars, requestVars, hashVars, episodesVars, chapterPagesVars >>

\* no call is in flight
NoneInFlight == \A c \in Calls : ePc[c] \in {"idle", "done"}

\* the calls are made one after the other
ServerNext ==
    \/ \E c \in Calls, episode \in Episodes, server \in Servers :
          NoneInFlight /\ CallFindEpisodeServer(c, episode, server)
    \/ \E c \in Calls : EpisodePageFails(c)
    \/ \E c \in Calls, html \in EpisodePages : EpisodePageReturns(c, html)
    \/ \E c \in Calls : PlayerPageReturns(c)

SpecServer == ServerInit /\ [][ServerNext]_vars

\* the calls are in flight at the same time, on different well-formed pages
ConcurrentNext ==
    \/ \E c \in Calls, episode \in ValidEpisodes, server \in Servers :
          CallFindEpisodeServer(c, episode, server)
    \/ \E c \in Calls : EpisodePageFails(c)
    \/ \E c \in Calls, html \in WellFormedPages :
          /\ \A d \in Calls \ {c} : ePage[d] # html
          /\ EpisodePageReturns(c, html)
    \/ \E c \in Calls : PlayerPageReturns(c)

SpecConcurrent == ServerInit /\ [][ConcurrentNext]_vars

(***************************************************************************)
(* Specification of the requests: the MangaLivre operations, and the fetch *)
(* helpers of DarkMahou and Q1N                                            *)
(***************************************************************************)
RequestInit ==
    /\ RequestIdle
    /\ ParserIdle
    /\ QueryIdle
    /\ SearchIdle
    /\ ServerIdle
    /\ HashIdle
    /\ EpisodesIdle
    /\ ChapterPagesIdle

\* an operation is called: with valid input it hands its URL to
\* fetchWithRetry, otherwise it returns the empty array
callOperation(op, arg, valid, url) ==
    /\ mPc \in {"idle", "done"}
    /\ mOperations < MaxOperations
    /\ mOperations' = mOperations + 1
    /\ mOp' = op
    /\ mArg' = arg
    /\ mRequests' = <<>>
    /\ mAttempt' = 0
    /\ mPageBody' = NoBody
    /\ mResult' = NoEntries
    /\ IF valid
       THEN mPc' = "fetchWithRetry" /\ mUrl' = url
       ELSE mPc' = "done" /\ mUrl' = "none"
    /\ UNCHANGED << parserVars, queryVars, searchVars, serverVars, hashVars, episodesVars, chapterPagesVars >>

\* MangaLivre Provider.search
CallMangaSearch(query) == 
    callOperation("search", query, isValidQuery(query), "searchUrl")

\* MangaLivre Provider.findChapters
CallFindChapters(mangaId) ==
    callOperation("findChapters", mangaId, isValidMangaId(mangaId), "mangaUrl")

\* MangaLivre Provider.findChapterPages
CallFindChapterPages(chapterId) ==
    callOperation("findChapterPages", chapterId, isValidChapterId(chapterId),
                  "chapterUrl")

\* DarkMahou HTTPClient.fetchWithUserAgent and Q1N HttpClient.fetchHtml
CallFetchOnce(helper) ==
    /\ mPc \in {"idle", "done"}
    /\ mOperations < MaxOperations
    /\ mOperations' = mOperations + 1
    /\ mOp' = helper
    /\ mArg' = <<>>
    /\ mRequests' = <<>>
    /\ mAttempt' = 0
    /\ mPageBody' = NoBody
    /\ mResult' = NoEntries
    /\ mPc' = "fetch"
    /\ mUrl' = "url"
    /\ UNCHANGED << parserVars, queryVars, searchVars, serverVars, hashVars, episodesVars, chapterPagesVars >>

\* one round of the loop of fetchWithRetry: the request is issued and ends
\* with outcome; body is the body of an ok response
FetchWithRetryAttempt(outcome, body) ==
    /\ mPc = "fetchWithRetry"
    /\ mRequests' = Append(mRequests,
                        [url |-> mUrl, method |-> "GET", outcome |-> outcome,
                         body |-> IF failed(outcome) THEN NoBody ELSE body])
    /\ LET next == afterAttempt(mAttempt, RETRIES, outcome)
       IN  IF next = "again"
           THEN /\ mAttempt' = mAttempt + 1
                /\ UNCHANGED << mPc, mPageBody, mResult >>
           ELSE IF next = "null"
           THEN /\ mPc' = "done"
                /\ mResult' = NoEntries
                /\ UNCHANGED << mAttempt, mPageBody >>
           ELSE IF mOp = "findChapters"
           THEN /\ mPc' = "ajax"
                /\ mPageBody' = body
                /\ UNCHANGED << mAttempt, mResult >>
           ELSE /\ mPc' = "done"
                /\ mPageBody' = body
                /\ mResult' = [from |-> "html", count |-> body.parsable]
                /\ UNCHANGED mAttempt
    /\ UNCHANGED << mOp, mArg, mUrl, mOperations >>
    /\ UNCHANGED << parserVars, queryVars, searchVars, serverVars, hashVars, episodesVars, chapterPagesVars >>

\* fetchChaptersViaAjax: the POST request is issued and ends with outcome,
\* and findChapters returns
AjaxRequest(outcome, body) ==
    /\ mPc = "ajax"
    /\ mRequests' = Append(mRequests,
                        [url |-> "ajaxUrl", method |-> "POST", outcome |-> outcome,
                         body |-> IF failed(outcome) THEN NoBody ELSE body])
    /\ mResult' = chaptersFound(outcome, body, mPageBody)
    /\ mPc' = "done"
    /\ UNCHANGED << mOp, mArg, mUrl, mAttempt, mPageBody, mOperations >>
    /\ UNCHANGED << parserVars, queryVars, searchVars, serverVars, hashVars, episodesVars, chapterPagesVars >>

\* the request of fetchWithUserAgent or fetchHtml is issued and ends with
\* outcome, and the helper returns
FetchOnce(outcome, body) ==
    /\ mPc = "fetch"
    /\ mRequests' = Append(mRequests,
                        [url |-> mUrl, method |-> "GET", outcome |-> outcome,
                         body |-> IF failed(outcome) THEN NoBody ELSE body])
    /\ mResult' = IF failed(outcome) THEN NoEntries
                  ELSE [from |-> "html", count |-> body.parsable]
    /\ mPc' = "done"
    /\ UNCHANGED << mOp, mArg, mUrl, mAttempt, mPageBody, mOperations >>
    /\ UNCHANGED << parserVars, queryVars, searchVars, serverVars, hashVars, episodesVars, chapterPagesVars >>

RequestNext ==
    \/ \E query \in MangaQueries : CallMangaSearch(query)
    \/ \E mangaId \in MangaIds : CallFindChapters(mangaId)
    \/ \E chapterId \in ChapterIds : CallFindChapterPages(chapterId)
    \/ \E helper \in {"fetchWithUserAgent", "fetchHtml"} : CallFetchOnce(helper)
    \/ \E outcome \in Outcomes, body \in Bodies : FetchWithRetryAttempt(outcome, body)
    \/ \E outcome \in Outcomes, body \in Bodies : AjaxRequest(outcome, body)
    \/ \E outcome \in Outcomes, body \in Bodies : FetchOnce(outcome, body)

SpecRequests == RequestInit /\ [][RequestNext]_vars

(***************************************************************************)
(* Specification of getTorrentInfoHash                                     *)
(***************************************************************************)
HashInit ==
    /\ HashIdle
    /\ ParserIdle
    /\ QueryIdle
    /\ SearchIdle
    /\ ServerIdle
    /\ RequestIdle
    /\ EpisodesIdle
    /\ ChapterPagesIdle

\* Provider.getTorrentInfoHash is called and returns
CallGetTorrentInfoHash(torrent) ==
    /\ Len(hLog) < MaxHashCalls
    /\ hLog' = Append(hLog, [torrent |-> torrent,
                             result |-> getTorrentInfoHash(torrent)])
    /\ UNCHANGED << parserVars, queryVars, searchVars, serverVars, requestVars, episodesVars, chapterPagesVars >>

HashNext == \E torrent \in HashTorrents : CallGetTorrentInfoHash(torrent)

SpecInfoHash == HashInit /\ [][HashNext]_vars

(***************************************************************************)
(* Specification of Q1N findEpisodes: one call                             *)
(***************************************************************************)
EpisodesInit ==
    /\ EpisodesIdle
    /\ ParserIdle
    /\ QueryIdle
    /\ SearchIdle
    /\ ServerIdle
    /\ RequestIdle
    /\ HashIdle
    /\ ChapterPagesIdle

\* Provider.findEpisodes is called
CallFindEpisodes(id) ==
    /\ fPc = "idle"
    /\ fId' = id
    /\ fPc' = IF isValidAnimeId(id) THEN "animePage" ELSE "done"
    /\ UNCHANGED << fLoaded, fPage, fI, fHeads, fEpisodes, fResult >>
    /\ UNCHANGED << parserVars, queryVars, searchVars, serverVars, requestVars, hashVars, chapterPagesVars >>

\* HttpClient.fetchHtml gives null for the anime page: findEpisodes goes to
\* findFromEpisodePages
AnimePageFails ==
    /\ fPc = "animePage"
    /\ fPc' = "probe"
    /\ UNCHANGED << fId, fLoaded, fPage, fI, fHeads, fEpisodes, fResult >>
    /\ UNCHANGED << parserVars, queryVars, searchVars, serverVars, requestVars, hashVars, chapterPagesVars >>

\* the anime page arrives: its episodes are returned sorted, or, when it has
\* none, findEpisodes goes to findFromEpisodePages
AnimePageReturns(page) ==
    /\ fPc = "animePage"
    /\ fLoaded' = TRUE
    /\ fPage' = page
    /\ LET episodes == parseFromAnimePage(page)
       IN  IF Len(episodes) = 0
           THEN fPc' = "probe" /\ fResult' = fResult
           ELSE fPc' = "done" /\ fResult' = sortEpisodes(episodes)
    /\ UNCHANGED << fId, fI, fHeads, fEpisodes >>
    /\ UNCHANGED << parserVars, queryVars, searchVars, serverVars, requestVars, hashVars, chapterPagesVars >>

\* one round of the loop of findFromEpisodePages: the HEAD request for the
\* page of episode fI ends with outcome
ProbeEpisodePage(outcome) ==
    /\ fPc = "probe"
    /\ fHeads' = Append(fHeads, outcome)
    /\ LET episodes == IF outcome = "ok" THEN Append(fEpisodes, probedEpisode(fI))
                       ELSE fEpisodes
           break == \/ outcome = "throws"
                    \/ outcome = "notOk" /\ fI > 1
       IN  /\ fEpisodes' = episodes
           /\ IF break \/ fI = MAX_EPISODES_SCAN
              THEN fPc' = "done" /\ fResult' = episodes /\ fI' = fI
              ELSE fPc' = "probe" /\ fResult' = fResult /\ fI' = fI + 1
    /\ UNCHANGED << fId, fLoaded, fPage >>
    /\ UNCHANGED << parserVars, queryVars, searchVars, serverVars, requestVars, hashVars, chapterPagesVars >>

EpisodesNext ==
    \/ \E id \in AnimeIds : CallFindEpisodes(id)
    \/ AnimePageFails
    \/ \E page \in AnimePageBodies : AnimePageReturns(page)
    \/ \E outcome \in Outcomes : ProbeEpisodePage(outcome)

SpecEpisodes == EpisodesInit /\ [][EpisodesNext]_vars

(***************************************************************************)
(* Specification of MangaLivre parseChapterPages: one call                 *)
(***************************************************************************)
ChapterPagesInit ==
    /\ ChapterPagesIdle
    /\ ParserIdle
    /\ QueryIdle
    /\ SearchIdle
    /\ ServerIdle
    /\ RequestIdle
    /\ HashIdle
    /\ EpisodesIdle

\* Provider.parseChapterPages is called with the document of a chapter page
CallParseChapterPages(doc) ==
    /\ cPc = "idle"
    /\ cDoc' = doc
    /\ cPc' = "select"
    /\ UNCHANGED << cSelector, cElements, cIndex, cResults, cResult >>
    /\ UNCHANGED << parserVars, queryVars, searchVars, serverVars, requestVars, hashVars, episodesVars >>

\* one round of the loop over pageSelectors: it breaks when the selector
\* finds an element; after the loop no element means the empty result
TrySelector ==
    /\ cPc = "select"
    /\ LET elements == cDoc[pageSelectors[cSelector]]
       IN  /\ cElements' = elements
           /\ IF Len(elements) > 0
              THEN cPc' = "each" /\ cSelector' = cSelector /\ cResult' = cResult
              ELSE IF cSelector < Len(pageSelectors)
              THEN cPc' = "select" /\ cSelector' = cSelector + 1 /\ cResult' = cResult
              ELSE cPc' = "done" /\ cSelector' = cSelector /\ cResult' = <<>>
    /\ UNCHANGED << cDoc, cIndex, cResults >>
    /\ UNCHANGED << parserVars, queryVars, searchVars, serverVars, requestVars, hashVars, episodesVars >>

\* the callback of elements.each for the element of index cIndex; after the
\* last element the results are returned
EachElement ==
    /\ cPc = "each"
    /\ LET pageUrl == extractPageImageUrl(cElements[cIndex + 1])
           results == IF pageUrl # <<>>
                      THEN Append(cResults, [url |-> pageUrl, index |-> cIndex])
                      ELSE cResults
       IN  /\ cResults' = results
           /\ IF cIndex + 1 < Len(cElements)
              THEN cPc' = "each" /\ cIndex' = cIndex + 1 /\ cResult' = cResult
              ELSE cPc' = "done" /\ cIndex' = cIndex /\ cResult' = results
    /\ UNCHANGED << cDoc, cSelector, cElements >>
    /\ UNCHANGED << parserVars, queryVars, searchVars, serverVars, requestVars, hashVars, episodesVars >>

ChapterPagesNext ==
    \/ \E doc \in ChapterDocs : CallParseChapterPages(doc)
    \/ TrySelector
    \/ EachElement

SpecChapterPages == ChapterPagesInit /\ [][ChapterPagesNext]_vars

(***************************************************************************)
(* Properties of TorrentParser (SpecParser)                                *)
(***************************************************************************)
\* what a pattern yields: the number of group g of its leftmost match when
\* that number is an episode number (1..9999), nothing otherwise
Yield(match, g) ==
    IF match = NoMatch THEN Null
    ELSE IF parseInt(match[g]) \in 1..9999 THEN parseInt(match[g]) ELSE Null

\* the first isolated number of the name that is no resolution and no year
FirstAcceptableIsolated(name) ==
    LET nums == EPISODE_NUMBER(name)
        ok == {k \in 1..Len(nums) :
                  /\ parseInt(nums[k]) \in 1..1999
                  /\ parseInt(nums[k]) \notin {480, 720, 1080}}
    IN  IF ok = {} THEN Null ELSE parseInt(nums[Min(ok)])

\* 'E' directly followed by digits, with or without a season prefix
EpisodeMarker(name) ==
    LET at == {i \in 1..Len(name) : LitAtCI(name, i, <<"e">>) /\ DigitRun(name, i + 1) >= 1}
    IN  IF at = {} THEN NoMatch
        ELSE << SubSeq(name, Min(at) + 1, Min(at) + DigitRun(name, Min(at) + 1)) >>

\* the five patterns of the claim, in its order; pattern 3 is SxxEyy, or
\* also a bare Eyy when bareE holds
PatternYields(name, episodeTitle, bareE) ==
    << Yield(PORTUGUESE(episodeTitle), 1),
       Yield(EPISODE_DASH(name), 1),
       IF bareE THEN Yield(EpisodeMarker(name), 1) ELSE Yield(SEASON_EPISODE(name), 2),
       Yield(ENGLISH(name), 1),
       FirstAcceptableIsolated(name) >>

\* the result of the first pattern that yields a number, -1 when none does
FirstYield(y) ==
    LET ks == {k \in 1..Len(y) : y[k] # Null}
    IN  IF ks = {} THEN -1 ELSE y[Min(ks)]

HasEpisodeRange(name) ==
    \E i \in 1..Len(name) :
        /\ Boundary(name, i)
        /\ DigitRun(name, i) >= 1
        /\ LET j == i + DigitRun(name, i)
           IN  /\ j <= Len(name)
               /\ name[j] \in {"-", "~"}
               /\ DigitRun(name, j + 1) >= 1
               /\ Boundary(name, j + 1 + DigitRun(name, j + 1))
               /\ LET a == parseInt(SubSeq(name, i, j - 1))
                      b == parseInt(SubSeq(name, j + 1, j + DigitRun(name, j + 1)))
                  IN  1 <= a /\ a < b /\ b <= 999

\* a season marker Sxx that is a word of its own, not the start of SxxEyy
HasSeasonOnlyMarker(name) ==
    \E i \in 1..Len(name) :
        /\ Boundary(name, i)
        /\ LowerChar(name[i]) = "s"
        /\ DigitRun(name, i + 1) >= 1
        /\ Boundary(name, i + 1 + DigitRun(name, i + 1))

\* the documented batch indicators
HasBatchIndicator(name, episodeTitle) ==
    \/ includes(toLowerCase(name), Str_batch)
    \/ includes(toLowerCase(name), Str_complete)
    \/ includes(episodeTitle, Str_tilde)
    \/ HasEpisodeRange(name)
    \/ HasSeasonOnlyMarker(name)

\* C7 as stated: isBatchTorrent returns true exactly when a documented batch
\* indicator is present (batch/complete keyword, "~" in the title, an
\* episode range, a season marker without episode).
C7_BatchIffIndicator ==
    pBatchCalled => (pBatch <=> HasBatchIndicator(pName, pTitle))

\* C8 as stated: a name that contains an episode range a-b or a~b with
\* 1 <= a < b <= 999 is classified as a batch.
C8_RangeIsBatch ==
    (pBatchCalled /\ HasEpisodeRange(pName)) => pBatch

(***************************************************************************)
(* Properties of PortugueseTranslator (SpecQuery)                          *)
(***************************************************************************)
RECURSIVE WordRun(_, _)
WordRun(s, i) ==
    IF i \in 1..Len(s) /\ s[i] \in WordChars THEN 1 + WordRun(s, i + 1) ELSE 0

RECURSIVE Lexemes(_)
\* the query cut into words, runs of white space and single other characters
Lexemes(s) ==
    IF s = <<>> THEN <<>>
    ELSE LET n == IF s[1] \in WordChars THEN WordRun(s, 1)
                  ELSE IF s[1] \in SpaceChars THEN SpaceRun(s, 1)
                  ELSE 1
         IN  << SubSeq(s, 1, n) >> \o Lexemes(SubSeq(s, n + 1, Len(s)))

IsNumberLexeme(l) == l # <<>> /\ \A k \in 1..Len(l) : l[k] \in Digits

IsSpaceLexeme(l) == l # <<>> /\ l[1] \in SpaceChars

\* a number followed by st, nd, rd or th
IsOrdinalLexeme(l) ==
    /\ Len(l) >= 3
    /\ IsNumberLexeme(SubSeq(l, 1, Len(l) - 2))
    /\ toLowerCase(SubSeq(l, Len(l) - 1, Len(l)))
          \in { <<"s", "t">>, <<"n", "d">>, <<"r", "d">>, <<"t", "h">> }

IsWordLexeme(l, word) == toLowerCase(l) = word

\* lexemes i, i+1, i+2 are: a lexeme satisfying the first test, white space,
\* a lexeme satisfying the second
Triple(ls, i, first, third) ==
    /\ i + 2 <= Len(ls)
    /\ first[i]
    /\ IsSpaceLexeme(ls[i + 1])
    /\ third[i + 2]

RECURSIVE RewriteLexemes(_, _, _, _)
\* one pass over the lexemes: where hit[i] is positive that many lexemes are
\* replaced by out[i], every other lexeme is kept
RewriteLexemes(ls, i, hit, out) ==
    IF i > Len(ls) THEN <<>>
    ELSE IF hit[i] > 0
         THEN out[i] \o RewriteLexemes(ls, i + hit[i], hit, out)
         ELSE << ls[i] >> \o RewriteLexemes(ls, i + 1, hit, out)

Temporada(n) == << n, <<OrdA>>, <<" ">>, Str_temporada >>

\* 'Nth season' becomes 'N-a temporada'
PassOrdinalSeason(ls) ==
    LET D == 1..Len(ls)
        isOrd == [i \in D |-> IsOrdinalLexeme(ls[i])]
        isSeason == [i \in D |-> IsWordLexeme(ls[i], Str_season)]
    IN  RewriteLexemes(ls, 1,
            [i \in D |-> IF Triple(ls, i, isOrd, isSeason) THEN 3 ELSE 0],
            [i \in D |-> Temporada(SubSeq(ls[i], 1, Len(ls[i]) - 2))])

\* 'season N' becomes 'N-a temporada'
PassSeasonNumber(ls) ==
    LET D == 1..Len(ls)
        isNum == [i \in D |-> IsNumberLexeme(ls[i])]
        isSeason == [i \in D |-> IsWordLexeme(ls[i], Str_season)]
    IN  RewriteLexemes(ls, 1,
            [i \in D |-> IF Triple(ls, i, isSeason, isNum) THEN 3 ELSE 0],
            [i \in D |-> IF i + 2 <= Len(ls) THEN Temporada(ls[i + 2]) ELSE <<>>])

WrittenOrdinals ==
    [w \in { <<"f", "i", "r", "s", "t">>, <<"s", "e", "c", "o", "n", "d">>,
             <<"t", "h", "i", "r", "d">>, <<"f", "o", "u", "r", "t", "h">>,
             <<"f", "i", "f", "t", "h">> } |->
        CASE w = <<"f", "i", "r", "s", "t">> -> <<"1">>
          [] w = <<"s", "e", "c", "o", "n", "d">> -> <<"2">>
          [] w = <<"t", "h", "i", "r", "d">> -> <<"3">>
          [] w = <<"f", "o", "u", "r", "t", "h">> -> <<"4">>
          [] w = <<"f", "i", "f", "t", "h">> -> <<"5">>]

\* 'first season' .. 'fifth season' become '1-a temporada' .. '5-a temporada'
PassWrittenOrdinal(ls) ==
    LET D == 1..Len(ls)
        isWritten == [i \in D |-> toLowerCase(ls[i]) \in DOMAIN WrittenOrdinals]
        isSeason == [i \in D |-> IsWordLexeme(ls[i], Str_season)]
    IN  RewriteLexemes(ls, 1,
            [i \in D |-> IF Triple(ls, i, isWritten, isSeason) THEN 3 ELSE 0],
            [i \in D |-> IF isWritten[i]
                         THEN Temporada(WrittenOrdinals[toLowerCase(ls[i])])
                         ELSE <<>>])

\* 'movie' becomes 'filme', 'special' becomes 'especial'; with ova, 'ova' in
\* any letter case becomes lower-case 'ova'
PassTerms(ls, ova) ==
    LET D == 1..Len(ls)
        term == [i \in D |->
                    IF IsWordLexeme(ls[i], <<"m", "o", "v", "i", "e">>)
                    THEN <<"f", "i", "l", "m", "e">>
                    ELSE IF IsWordLexeme(ls[i], <<"s", "p", "e", "c", "i", "a", "l">>)
                    THEN <<"e", "s", "p", "e", "c", "i", "a", "l">>
                    ELSE IF ova /\ IsWordLexeme(ls[i], <<"o", "v", "a">>)
                    THEN <<"o", "v", "a">>
                    ELSE <<>>]
    IN  RewriteLexemes(ls, 1,
            [i \in D |-> IF term[i] # <<>> THEN 1 ELSE 0],
            [i \in D |-> << term[i] >>])

\* 'part N' becomes 'parte N'
PassPart(ls) ==
    LET D == 1..Len(ls)
        isNum == [i \in D |-> IsNumberLexeme(ls[i])]
        isPart == [i \in D |-> IsWordLexeme(ls[i], Str_part)]
    IN  RewriteLexemes(ls, 1,
            [i \in D |-> IF Triple(ls, i, isPart, isNum) THEN 3 ELSE 0],
            [i \in D |-> IF i + 2 <= Len(ls)
                         THEN << Str_parte, <<" ">>, ls[i + 2] >>
                         ELSE <<>>])

\* runs of white space become one space; leading and trailing ones go
PassSpaces(ls) ==
    LET D == 1..Len(ls)
    IN  RewriteLexemes(ls, 1,
            [i \in D |-> IF IsSpaceLexeme(ls[i]) THEN 1 ELSE 0],
            [i \in D |-> IF i = 1 \/ i = Len(ls) THEN <<>> ELSE << <<" ">> >>])

\* the conversion as the claim describes it, rule after rule on the words of
\* the query, each rule applied to the result of the one before
Converted(query, ova) ==
    Flatten(PassSpaces(PassPart(PassTerms(
        PassWrittenOrdinal(PassSeasonNumber(PassOrdinalSeason(Lexemes(query)))), ova))))

\* C10 as stated: the conversion rewrites 'season N', 'Nth season' and
\* 'first'..'fifth season' to 'N-a temporada', 'movie' to 'filme', 'special'
\* to 'especial', 'part N' to 'parte N', collapses white space and trims,
\* and leaves all other text unchanged.
C10_OnlyListedRewrites ==
    qCalled => qResult = Converted(qQuery, FALSE)

\* C10 amended: as stated, and in addition 'ova' in any letter case is
\* rewritten to lower-case 'ova'; the rules are applied one after the other
\* in the order Nth season, season N, written ordinal, terms, part N, each
\* to the result of the one before.
C10_ListedRewritesAndOva ==
    qCalled => qResult = Converted(qQuery, TRUE)

\* a query with a season number and other text has been converted
C10_Witness ==
    /\ qCalled
    /\ includes(qQuery, <<"x">>)
    /\ qResult # qQuery
    /\ includes(qResult, <<"2", OrdA, " ">> \o Str_temporada)
    /\ includes(qResult, <<"x">>)


(***************************************************************************)
(* Properties of the DarkMahou provider (SpecSearch)                       *)
(***************************************************************************)
\* a torrent passes every filter that the options make active
PassesActiveFilters(t, opts) ==
    /\ opts.episodeNumber > 0 =>
          \/ t.episodeNumber = opts.episodeNumber
          \/ t.isBatch
          \/ t.episodeNumber = -1
    /\ opts.resolution # <<>> =>
          \/ t.resolution = <<>>
          \/ includes(t.resolution, opts.resolution)
    /\ opts.batch => t.isBatch

\* C1: when smartSearch has returned, its result is the result of the
\* underlying search restricted, in the original order, to the torrents that
\* pass every active filter (episode: equal, batch or -1; resolution: empty
\* or containing; batch: is a batch); nothing else is returned.
C1_SmartSearchFilters ==
    (sPc = "done" /\ sOp = "smartSearch") =>
        sResult = SelectSeq(sSearchResults, LAMBDA t : PassesActiveFilters(t, sOpts))

\* a smart search for episode 7 that dropped a torrent of another episode
\* and kept a batch
C1_Witness ==
    /\ sPc = "done"
    /\ sOp = "smartSearch"
    /\ sOpts.episodeNumber = 7
    /\ Len(sResult) >= 1
    /\ Len(sResult) < Len(sSearchResults)
    /\ \E i \in 1..Len(sResult) : sResult[i].isBatch

\* what the claim calls the LoadDoc results: one torrent for each table row
\* whose link starts with magnet:?, in page order
MagnetRows(page) ==
    SelectSeq(page.rows, LAMBDA row : row.href.scheme = "magnet:?")

LoadDocResults(page, pageURL) ==
    [i \in 1..Len(MagnetRows(page)) |->
        LET row == MagnetRows(page)[i]
            resolution == trim(replaceFirst(trim(row.reso), <<">", ">">>, <<>>))
        IN  createAnimeTorrent(trim(row.title) \o <<" ", "-", " ">> \o resolution,
                               row.href, pageURL, resolution, trim(row.title))]

\* what the claim calls the regex-fallback results: one torrent for each
\* magnet link of the page text, in page order
RegexFallbackResults(page, pageURL) ==
    LET hrefs == [i \in 1..Len(page.rows) |-> page.rows[i].href]
        links == SelectSeq(hrefs \o page.loose,
                           LAMBDA l : l.scheme \in {"magnet:?", "MAGNET:?"})
    IN  [i \in 1..Len(links) |->
            LET name == extractTorrentNameFromMagnet(links[i], i)
            IN  createAnimeTorrent(name, links[i], pageURL, parseResolution(name), <<>>)]

\* C5: the torrents parsed from an anime page are exactly the LoadDoc results
\* when LoadDoc works and yields at least one magnet row, and exactly the
\* regex-fallback results when LoadDoc is unavailable, throws or yields no
\* magnet row; the two are never mixed.
C5_LoadDocThenRegexFallback ==
    sParsed =>
        sSearchResults =
            IF sPage.loadDoc = "ok" /\ Len(MagnetRows(sPage)) >= 1
            THEN LoadDocResults(sPage, sPageURL)
            ELSE RegexFallbackResults(sPage, sPageURL)

\* LoadDoc threw after a magnet row had been read, and the page was parsed by
\* the regex fallback alone
C5_Witness ==
    /\ sParsed
    /\ sPage.loadDoc = "throwsInEach"
    /\ Len(sPage.rows) >= 2
    /\ sPage.rows[1].href.scheme = "magnet:?"
    /\ Len(sSearchResults) >= 1
    /\ sSearchResults # LoadDocResults(sPage, sPageURL)

\* C9: every torrent that the provider produced and that is a batch has the
\* episode number -1.
C9_BatchHasNoEpisode ==
    /\ \A i \in 1..Len(sSearchResults) :
          sSearchResults[i].isBatch => sSearchResults[i].episodeNumber = -1
    /\ \A i \in 1..Len(sResult) :
          sResult[i].isBatch => sResult[i].episodeNumber = -1

\* a call returned a batch torrent whose name holds an isolated number
C9_Witness ==
    /\ sPc = "done"
    /\ \E i \in 1..Len(sResult) :
          /\ sResult[i].isBatch
          /\ tryExtractFromIsolatedNumbers(sResult[i].name) # Null


(***************************************************************************)
(* Properties of Q1N findEpisodeServer (SpecServer, SpecConcurrent)        *)
(***************************************************************************)
RECURSIVE extractionAlone(_, _, _)
\* extractFromHtml run from the state lastIndex of IFRAME_AVISO without any
\* other call: what the loops stop with, and the players mapped
extractionAlone(html, lastIndex, players) ==
    LET loop == avisoLoop(html, lastIndex, players)
    IN  IF loop.stop = "await"
        THEN LET videoUrl == extractVideoUrl(loop.playerUrl, playerSite(loop.playerUrl))
             IN  extractionAlone(html, loop.lastIndex,
                     mapPlayerByUrl(loop.players,
                         IF videoUrl # <<>> THEN videoUrl ELSE loop.playerUrl))
        ELSE IF loop.stop = "threw"
        THEN [threw |-> TRUE, players |-> loop.players]
        ELSE [threw |-> FALSE, players |-> directLoop(html, 0, loop.players)]

\* the players that extractFromPage gives for the page when the call is the
\* only one and the first that the provider serves
PlayersAlone(episode, html) ==
    LET alone == extractionAlone(html, 0, NoPlayers)
    IN  extractedPlayers(alone.players, alone.threw, episode)

\* the result of findEpisodeServer for its arguments and the responses to
\* its requests, when the call is the first that the provider serves
ResultAlone(episode, server, html) ==
    IF ~validEpisodeData(episode) \/ html = NoHtml \/ html = <<>> THEN Rejected
    ELSE episodeServer(PlayersAlone(episode, html), server)

\* C2: a call that has returned has the result that its arguments and the
\* responses to its requests give, whatever calls were served before it.
C2_ResultOfArgumentsAndResponses ==
    \A c \in Calls :
        ePc[c] = "done" => eResult[c] = ResultAlone(eEpisode[c], eServer[c], ePage[c])

\* C3: of two calls in flight at the same time, each one that has returned
\* has extracted the players it extracts when run alone on its page.
C3_PlayersAsAlone ==
    \A c \in Calls :
        (ePc[c] = "done" /\ ePage[c] # NoHtml /\ ePage[c] # <<>>) =>
            ePlayers[c] = PlayersAlone(eEpisode[c], ePage[c])


(***************************************************************************)
(* Properties of the requests (SpecRequests)                               *)
(***************************************************************************)
\* the requests numbered i and j of the operation are the same request
SameRequest(i, j) ==
    /\ mRequests[i].url = mRequests[j].url
    /\ mRequests[i].method = mRequests[j].method

\* C4 as stated: within an operation no request is issued twice.
C4_NoRequestTwice ==
    \A i, j \in 1..Len(mRequests) : i < j => ~SameRequest(i, j)

\* C4: a request is issued again only by fetchWithRetry of MangaLivre (the
\* page requests of search, findChapters and findChapterPages), only after it
\* failed, at once, and only one time; the AJAX request of findChapters and
\* the requests of fetchWithUserAgent and fetchHtml are issued one time.
C4_OneRetryOfFailedPageRequest ==
    \A i, j \in 1..Len(mRequests) :
        (i < j /\ SameRequest(i, j)) =>
            /\ mOp \in {"search", "findChapters", "findChapterPages"}
            /\ mRequests[i].method = "GET"
            /\ failed(mRequests[i].outcome)
            /\ j = i + 1
            /\ \A k \in 1..Len(mRequests) : SameRequest(i, k) => k \in {i, j}

\* a page request failed, was issued again and then answered
C4_Witness ==
    /\ mPc = "done"
    /\ mOp = "search"
    /\ Len(mRequests) = 2
    /\ SameRequest(1, 2)
    /\ mRequests[1].outcome = "throws"
    /\ mRequests[2].outcome = "ok"
    /\ mResult.from = "html"


(***************************************************************************)
(* Properties of DarkMahou search (SpecSearch)                             *)
(***************************************************************************)
\* C11 as stated: search always resolves to a list and never rejects, and it
\* resolves to the empty list whenever the search request fails, no anime
\* page link matches the query, or the anime page request fails.
C11_SearchResolvesToList ==
    sOp = "search" =>
        /\ sPc # "rejected"
        /\ (sPc = "done" /\ sCause.at \in {"search", "link", "page"})
               => sResult = <<>>

\* extractPageURL has run on the search page, and the anime page is awaited or
\* no link was selected
pageExtracted == sPc = "pageFetch" \/ sCause.at = "link"

\* the excluded pages that are named: search, tag, blog, contact, lists,
\* category, genre
NamedExcludedPages ==
    EXCLUDED_URL_PATTERNS \ { <<"/", "e", "m", "-", "b", "r", "e", "v", "e">>,
                              <<"/", "a", "n", "i", "m", "e", "s", "-", "p", "o", "p", "u",
                                "l", "a", "r", "e", "s">> }

\* the score of the i-th link of the search page for the query that search
\* hands to extractPageURL
linkScore(i) ==
    calculateMatchScore(convertQuery(searchQuery), sLinks[i].title, sLinks[i].url)

\* the links that qualify when the pages of excluded are left out
qualifying(excluded) ==
    {i \in 1..Len(sLinks) :
         /\ \A pattern \in excluded : ~includes(sLinks[i].url, pattern)
         /\ linkScore(i) > 0}

\* the selected page is the URL of the earliest link of the highest score
\* among the qualifying ones, and empty exactly when there is none
SelectedAsStated(excluded) ==
    pageExtracted =>
        IF qualifying(excluded) = {} THEN sPageURL = <<>>
        ELSE /\ sPageURL # <<>>
             /\ \E i \in qualifying(excluded) :
                    /\ sPageURL = sLinks[i].url
                    /\ \A j \in qualifying(excluded) :
                           \/ linkScore(j) < linkScore(i)
                           \/ linkScore(j) = linkScore(i) /\ i <= j

\* C17 as stated: the selected anime page is the URL of a link of the highest
\* match score (100, 50, 30) among the links that are not search, tag, blog,
\* contact, lists, category or genre pages and score above 0, the earliest of
\* equal scores, and the empty string exactly when no link qualifies.
C17_BestLinkOfNamedPages == SelectedAsStated(NamedExcludedPages)

\* C17 with every pattern of EXCLUDED_URL_PATTERNS: the coming-soon and
\* popular-animes pages are left out as well.
C17_BestLinkOfAllowedPages == SelectedAsStated(EXCLUDED_URL_PATTERNS)

\* two different links qualify with the same score and the first is selected
C17_Witness ==
    /\ pageExtracted
    /\ Len(sLinks) = 2
    /\ qualifying(EXCLUDED_URL_PATTERNS) = {1, 2}
    /\ linkScore(1) = linkScore(2)
    /\ sLinks[1].url # sLinks[2].url
    /\ sPageURL = sLinks[1].url

(***************************************************************************)
(* Properties of parseChapterPages (SpecChapterPages)                      *)
(***************************************************************************)
\* the positions in pageSelectors of the selectors that find an element
matchingSelectors == {k \in 1..Len(pageSelectors) : Len(cDoc[pageSelectors[k]]) > 0}

\* the url of an element: data-src when it has one, src otherwise
preferredUrl(element) ==
    IF element.dataSrc # <<>> THEN trim(element.dataSrc) ELSE trim(element.src)

\* C18: the pages come only from the first selector, in the order
\* '.reading-content img', '.manga-reading img', '.manga-page img', that
\* matches an element; every page has a non-empty url, the data-src of its
\* element in preference to its src; the indexes are strictly increasing; and
\* the result is empty when no selector matches.
C18_PagesOfFirstMatchingSelector ==
    cPc = "done" =>
        /\ pageSelectors =
               << ".reading-content img", ".manga-reading img", ".manga-page img" >>
        /\ IF matchingSelectors = {} THEN cResult = <<>>
           ELSE LET elements == cDoc[pageSelectors[Min(matchingSelectors)]]
                IN  \A p \in 1..Len(cResult) :
                        /\ cResult[p].url # <<>>
                        /\ cResult[p].index \in 0..(Len(elements) - 1)
                        /\ cResult[p].url = preferredUrl(elements[cResult[p].index + 1])
                        /\ \A q \in 1..Len(cResult) :
                               p < q => cResult[p].index < cResult[q].index

\* the first selector finds nothing, the second and the third differ, and
\* the one page returned is the second element of the second selector, with
\* the data-src of an element that has a src too
C18_Witness ==
    /\ cPc = "done"
    /\ cDoc[pageSelectors[1]] = <<>>
    /\ Len(cDoc[pageSelectors[2]]) = 2
    /\ cDoc[pageSelectors[3]] # <<>>
    /\ cDoc[pageSelectors[3]] # cDoc[pageSelectors[2]]
    /\ Len(cResult) = 1
    /\ cResult[1].index = 1
    /\ cDoc[pageSelectors[2]][2].src # <<>>
    /\ cResult[1].url = cDoc[pageSelectors[2]][2].dataSrc

(***************************************************************************)
(* Properties of getTorrentInfoHash (SpecInfoHash)                         *)
(***************************************************************************)
\* the result that the stated precedence gives: own infoHash, else the btih
\* hash that the magnet link contains, else the example hash when the torrent
\* has neither, else the empty string
StatedInfoHash(torrent) ==
    IF torrent.infoHash # "" THEN torrent.infoHash
    ELSE IF torrent.magnetLink.hash # "" THEN torrent.magnetLink.hash
    ELSE IF torrent.magnetLink = NoMagnet THEN exampleHash
    ELSE ""

\* C12 as stated: getTorrentInfoHash returns the torrent's own infoHash when
\* non-empty, otherwise the btih hash of its magnetLink when the link
\* contains one, otherwise the example hash when it has neither infoHash nor
\* magnetLink, otherwise the empty string.
C12_InfoHashPrecedence ==
    \A i \in 1..Len(hLog) : hLog[i].result = StatedInfoHash(hLog[i].torrent)


(***************************************************************************)
(* Properties of MangaLivre findChapters and of input validation           *)
(* (SpecRequests)                                                          *)
(***************************************************************************)
\* the requests of the operation that were answered ok, by method
OkRequests(method) ==
    { i \in 1..Len(mRequests) :
        mRequests[i].method = method /\ mRequests[i].outcome = "ok" }

\* the requests of the operation, by method
Requests(method) == { i \in 1..Len(mRequests) : mRequests[i].method = method }

\* the number of chapters that the AJAX method yielded: those that can be
\* parsed in an ok response
AjaxYield ==
    IF OkRequests("POST") = {} THEN 0
    ELSE mRequests[CHOOSE i \in OkRequests("POST") : TRUE].body.parsable

\* the number of chapters that the listing of the manga page holds
ListingYield ==
    IF OkRequests("GET") = {} THEN 0
    ELSE mRequests[CHOOSE i \in OkRequests("GET") : TRUE].body.parsable

\* C13: findChapters asks the AJAX endpoint once the manga page is fetched; it
\* returns the AJAX chapters and leaves the HTML listing alone when AJAX
\* yields at least one chapter, returns the chapters of the HTML listing
\* whenever AJAX yields none, and returns the empty list only when the manga
\* page cannot be fetched or both methods yield no chapter.
C13_AjaxThenHtmlListing ==
    (mOp = "findChapters" /\ mPc = "done") =>
        /\ OkRequests("GET") = {} =>
              (Requests("POST") = {} /\ mResult = NoEntries)
        /\ (OkRequests("GET") # {} /\ AjaxYield > 0) =>
              mResult = [from |-> "ajax", count |-> AjaxYield]
        /\ (OkRequests("GET") # {} /\ AjaxYield = 0) =>
              /\ Cardinality(Requests("POST")) = 1
              /\ mResult.from # "ajax"
              /\ mResult.count = ListingYield
        /\ mResult.count = 0 =>
              (OkRequests("GET") = {} \/ (AjaxYield = 0 /\ ListingYield = 0))

\* the AJAX response holds chapter elements of which none can be parsed, and
\* findChapters has returned the chapter of the HTML listing
C13_Witness ==
    /\ mOp = "findChapters"
    /\ mPc = "done"
    /\ \E i \in OkRequests("POST") :
          mRequests[i].body.elements > 0 /\ mRequests[i].body.parsable = 0
    /\ mResult = [from |-> "html", count |-> 1]

\* the input of the operation fails validation, as the claim states it: an
\* empty or whitespace-only query, a mangaId without letter and hyphen, a
\* chapterId that does not start with "http"
FailsValidation ==
    CASE mOp = "search" -> \A i \in 1..Len(mArg) : mArg[i] \in SpaceChars
      [] mOp = "findChapters" ->
            \A i \in 1..Len(mArg) :
                mArg[i] \notin LowerLetters \cup UpperLetters \cup {"-"}
      [] mOp = "findChapterPages" ->
            ~(Len(mArg) >= 4 /\ SubSeq(mArg, 1, 4) = <<"h", "t", "t", "p">>)
      [] OTHER -> FALSE

\* C14: a MangaLivre operation whose input fails validation returns the
\* empty list without issuing any request.
C14_InvalidInputNoRequest ==
    FailsValidation =>
        (mPc = "done" /\ mRequests = <<>> /\ mResult = NoEntries)

\* findChapters was called with a mangaId made of digits and has returned
C14_Witness ==
    /\ mOp = "findChapters"
    /\ mArg # <<>>
    /\ FailsValidation
    /\ mPc = "done"


(***************************************************************************)
(* Properties of Q1N findEpisodes (SpecEpisodes)                           *)
(***************************************************************************)
\* the sequences a and b hold the same episodes, each as many times
IsPermutation(a, b) ==
    /\ Len(a) = Len(b)
    /\ \A e \in {a[i] : i \in 1..Len(a)} \cup {b[i] : i \in 1..Len(b)} :
          Cardinality({i \in 1..Len(a) : a[i] = e})
              = Cardinality({i \in 1..Len(b) : b[i] = e})

\* the episodes whose pages answered ok to the HEAD requests, in order
RECURSIVE OkProbes(_, _)
OkProbes(heads, i) ==
    IF i > Len(heads) THEN <<>>
    ELSE (IF heads[i] = "ok" THEN << probedEpisode(i) >> ELSE <<>>)
            \o OkProbes(heads, i + 1)

\* C15: findEpisodes returns the episodes of the anime page in ascending
\* order of number, without probing, whenever the page loads and yields an
\* episode; it probes the episode pages only when the anime page cannot be
\* loaded or yields no episode, and then returns the probed episodes.
C15_PageEpisodesElseProbes ==
    LET yields == fLoaded /\ Len(parseFromAnimePage(fPage)) > 0
    IN  /\ (fPc = "done" /\ yields) =>
              /\ IsPermutation(fResult, parseFromAnimePage(fPage))
              /\ \A i, j \in 1..Len(fResult) :
                    i < j => fResult[i].number <= fResult[j].number
        /\ yields => fHeads = <<>>
        /\ (fPc = "done" /\ fHeads # <<>>) => fResult = OkProbes(fHeads, 1)

\* the page lists episode 2 before episode 1 and findEpisodes has returned
C15_Witness ==
    /\ fPc = "done"
    /\ fLoaded
    /\ Len(parseFromAnimePage(fPage)) = 2
    /\ parseFromAnimePage(fPage)[1].number > parseFromAnimePage(fPage)[2].number
    /\ fResult # <<>>


(***************************************************************************)
(* Properties of the result of Q1N findEpisodeServer (SpecServer)          *)
(***************************************************************************)
\* the episode has an id and a url that is not blank
HasIdAndUrl(episode) ==
    /\ episode.id # <<>>
    /\ \E i \in 1..Len(episode.url) : episode.url[i] \notin SpaceChars

\* the server that call c selects
SelectedServer(c) ==
    IF eServer[c] = Str_default \/ eServer[c] = <<>> THEN Str_chplay ELSE eServer[c]

\* the player URL that call c selects among the players it extracted: that
\* of the selected server, else that of chplay, else that of ruplay
SelectedPlayerUrl(c) ==
    LET own == IF SelectedServer(c) = Str_chplay THEN ePlayers[c].chplay
               ELSE IF SelectedServer(c) = Str_ruplay THEN ePlayers[c].ruplay
               ELSE <<>>
    IN  IF own # <<>> THEN own
        ELSE IF ePlayers[c].chplay # <<>> THEN ePlayers[c].chplay
        ELSE ePlayers[c].ruplay

\* call c has returned as the claim states for the case that its episode
\* page is in the state notLoaded
ServerResultAsStated(c, notLoaded) ==
    LET rejects == \/ ~HasIdAndUrl(eEpisode[c])
                   \/ notLoaded
                   \/ includes(SelectedPlayerUrl(c), Str_aboutBlank)
    IN  /\ rejects <=> eResult[c] = Rejected
        /\ ~rejects => eResult[c] = [status |-> "resolved",
                                     server |-> SelectedServer(c),
                                     url |-> SelectedPlayerUrl(c)]

\* C16 as stated: findEpisodeServer rejects exactly when the episode has no
\* id, no url or a blank url, or the episode page cannot be loaded, or the
\* selected player URL contains 'about:blank'; otherwise it resolves to a
\* response with one video source.
C16_RejectsExactlyWhen ==
    \A c \in Calls :
        ePc[c] = "done" => ServerResultAsStated(c, ePage[c] = NoHtml)

\* C16 amended: as stated, where an episode page whose body is empty counts
\* as a page that cannot be loaded.
C16_RejectsExactlyWhenOrEmptyPage ==
    \A c \in Calls :
        ePc[c] = "done" =>
            ServerResultAsStated(c, ePage[c] = NoHtml \/ ePage[c] = <<>>)

\* a call was rejected for an about:blank player, and another one resolved
C16_Witness ==
    \E c, d \in Calls :
        /\ ePc[c] = "done" /\ ePc[d] = "done"
        /\ HasIdAndUrl(eEpisode[c]) /\ ePage[c] # NoHtml /\ ePage[c] # <<>>
        /\ eResult[c] = Rejected
        /\ eResult[d].status = "resolved"

=============================================================================
